---- MODULE Spec2Model ----
(***************************************************************************)
(* Verification model of the pharmacy point-of-sale front end:             *)
(*   - the pack/unit utilities of src/lib/data-utils.ts                    *)
(*     (calculatePackInventory, createPackSaleInfo) and the pack info the  *)
(*     desktop product search attaches to a barcode-scanned line;          *)
(*   - the desktop cashier page (CashierContent + PaymentPanel);           *)
(*   - the mobile cashier page (MobileCashierPage + PaymentProcessingMobile*)
(*     + ProductSearchMobile);                                             *)
(*   - the manager's inventory page (InventoryManagement) and the          *)
(*     validation functions of src/lib/data-utils.ts;                      *)
(*   - the authentication context (AuthProvider, withAuth).                *)
(* An optional JavaScript value is a sequence: <<>> is undefined, <<x>> is *)
(* the value x.  A discount of 0 stands for an absent discount as well:    *)
(* every read in the source is `item.discount || 0`.                       *)
(***************************************************************************)
EXTENDS Integers, Sequences, FiniteSets, TLC

VARIABLES
  page,        \* which unit is mounted: "pack" | "desktop" | "mobile" | "inventory" | "auth"
  frame,       \* the call of a data-utils function in progress or returned
  lastOp,      \* name of the handler that ran last
  cartItems,   \* useState<CartItem[]> of the cashier page
  totals,      \* subtotal, totalDiscount, total of the last render
  user,        \* useAuth().user, reduced to its outletId
  showPayment, \* CashierContent: PaymentPanel shown instead of ShoppingCart
  panel,       \* state of the mounted PaymentPanel instance
  calls,       \* createSale.mutate calls in flight: saleData, caller mounted
  submitted,   \* number of createSale.mutate calls made so far
  sold,        \* sales API: the items of the sale accepted last (<<>> when none)
  timers,      \* pending setTimeout(onPaymentComplete, 3000) callbacks
  viewState,   \* MobileCashierPage: "pos" | "payment" | "receipt"
  activeTab,   \* MobileCashierPage: "products" | "cart" | "customer"
  paymentData, \* MobileCashierPage: <<>> (null) or << payment >>
  pending,     \* PaymentProcessingMobile.handlePayment calls at their await
  scans,       \* ProductSearchMobile.handleBarcodeScanned calls at their await
  adjustmentReason,  \* InventoryManagement: text of the reason box (characters)
  inventoryItems,    \* InventoryManagement: items of the last fetch
  loading,           \* InventoryManagement: loading view shown
  error,             \* InventoryManagement: <<>> (null) or << message >>
  adjustments,       \* InventoryManagement: productId -> edited quantity
  refreshing,        \* InventoryManagement: handleRefresh in progress
  isReasonOpen,      \* InventoryManagement: reason dialog open
  pendingAdjustment, \* InventoryManagement: <<>> (null) or << productId, newQuantity >>
  isThresholdOpen,   \* InventoryManagement: thresholds dialog open
  thresholds,        \* InventoryManagement: <<>> (null) or << productId >>
  requests,          \* inventory API calls in flight, with their continuation
  serverStock,       \* backend: <<>> while its answers are left open, or
                     \* << stock of the product it has recorded >>
  auth,              \* AuthProvider: user (its role), token, isLoading, error, isValidated
  localStorage,      \* the keys auth_token and user of window.localStorage
  authRefs,          \* AuthProvider: initializationAttempted, isInitializing, retryCount
  authCalls          \* AuthProvider: its asynchronous calls at their await

desktopVars == << user, showPayment, calls, timers >>
mobileVars == << viewState, activeTab, paymentData, pending, scans >>
cashierVars == << cartItems, totals, panel, submitted, sold, desktopVars, mobileVars >>
inventoryVars == << adjustmentReason, inventoryItems, loading, error, adjustments, refreshing,
                    isReasonOpen, pendingAdjustment, isThresholdOpen, thresholds,
                    requests, serverStock >>

authVars == << auth, localStorage, authRefs, authCalls >>

\* the products the inventory page lists
InventoryProducts == { "p" }

\* the inventory page before it is mounted
InventoryUnmounted ==
  /\ adjustmentReason = <<>>
  /\ inventoryItems = <<>>
  /\ loading = TRUE
  /\ error = <<>>
  /\ adjustments = [ productId \in InventoryProducts |-> <<>> ]
  /\ refreshing = FALSE
  /\ isReasonOpen = FALSE
  /\ pendingAdjustment = <<>>
  /\ isThresholdOpen = FALSE
  /\ thresholds = <<>>
  /\ requests = <<>>
  /\ serverStock = <<>>

\* useState and useRef initial values of AuthProvider
AuthInitialState ==
  [ user |-> <<>>, token |-> <<>>, isLoading |-> TRUE, error |-> <<>>, isValidated |-> FALSE ]

AuthInitialRefs ==
  [ initializationAttempted |-> FALSE, isInitializing |-> FALSE, retryCount |-> 0 ]

EmptyStorage == [ auth_token |-> <<>>, user |-> <<>> ]

\* the units that do not follow the AuthProvider
AuthUnmounted ==
  /\ auth = AuthInitialState
  /\ localStorage = EmptyStorage
  /\ authRefs = AuthInitialRefs
  /\ authCalls = <<>>

(***************************************************************************)
(* Bounds                                                                  *)
(***************************************************************************)
MaxUnits == 10
MaxVariants == 2
MaxQty == 2
MaxSubmit == 2
MaxInFlight == 1
MaxScans == 1
MaxStock == 2
MaxTarget == 3
MaxRequests == 1
MaxAuthCalls == 2

\* const maxRetries = 3 of AuthProvider
maxRetries == 3

(***************************************************************************)
(* Pack variants and products offered to the functions                     *)
(***************************************************************************)
VariantPool ==
  { [id |-> "v3",  packSize |-> 3, packPrice |-> 27, unitPrice |-> 9, isActive |-> TRUE],
    [id |-> "v3b", packSize |-> 3, packPrice |-> 24, unitPrice |-> 8, isActive |-> TRUE],
    [id |-> "v2",  packSize |-> 2, packPrice |-> 19, unitPrice |-> 10, isActive |-> TRUE],
    [id |-> "v5x", packSize |-> 5, packPrice |-> 40, unitPrice |-> 6, isActive |-> FALSE],
    [id |-> "v1x", packSize |-> 1, packPrice |-> 10, unitPrice |-> 10, isActive |-> FALSE] }

\* the product whose stock is decomposed: its own (atomic) unit price
PackProducts == { [id |-> "p1", price |-> 10] }

RECURSIVE SeqsUpTo(_, _)
SeqsUpTo(S, n) ==
  IF n = 0 THEN { <<>> }
  ELSE LET shorter == SeqsUpTo(S, n - 1)
       IN  shorter \cup { Append(s, x) : s \in { t \in shorter : Len(t) = n - 1 },
                                         x \in S }

Ids(s) == { s[i].id : i \in 1..Len(s) }

\* variant lists without a repeated variant
VariantLists ==
  { s \in SeqsUpTo(VariantPool, MaxVariants) : Cardinality(Ids(s)) = Len(s) }

(***************************************************************************)
(* dataTransforms.calculatePackInventory                                   *)
(***************************************************************************)
\* position of x in a list sorted by packSize descending: behind every
\* element that does not compare greater (Array.prototype.sort is stable)
RECURSIVE InsertDesc(_, _)
InsertDesc(s, x) ==
  IF s = <<>> THEN <<x>>
  ELSE IF Head(s).packSize >= x.packSize
       THEN <<Head(s)>> \o InsertDesc(Tail(s), x)
       ELSE <<x>> \o s

\* SortBySizeDesc leaving the list in the caller's order
SortBySizeDescKeepsOrder(s) == s

RECURSIVE SortBySizeDesc(_)
SortBySizeDesc(s) ==
  IF s = <<>> THEN <<>>
  ELSE InsertDesc(SortBySizeDesc(SubSeq(s, 1, Len(s) - 1)), s[Len(s)])

\* LoopBody with the units of the packs left in remainingUnits
LoopBodyKeepsUnits(acc, variant) ==
  IF ~variant.isActive THEN acc
  ELSE LET availablePacks == acc.remainingUnits \div variant.packSize
       IN  IF availablePacks > 0
           THEN [ remainingUnits |-> acc.remainingUnits - availablePacks,
                  packBreakdown  |-> Append(acc.packBreakdown,
                                            [variant |-> variant, availablePacks |-> availablePacks]),
                  totalValue     |-> acc.totalValue + availablePacks * variant.packPrice ]
           ELSE acc

\* one iteration of the for loop over sortedVariants
LoopBody(acc, variant) ==
  IF ~variant.isActive THEN acc
  ELSE LET availablePacks == acc.remainingUnits \div variant.packSize
       IN  IF availablePacks > 0
           THEN [ remainingUnits |-> acc.remainingUnits - availablePacks * variant.packSize,
                  packBreakdown  |-> Append(acc.packBreakdown,
                                            [variant |-> variant, availablePacks |-> availablePacks]),
                  totalValue     |-> acc.totalValue + availablePacks * variant.packPrice ]
           ELSE acc

\* sortedVariants[0]?.unitPrice || 0
LooseUnitPrice(sortedVariants) ==
  IF sortedVariants = <<>> THEN 0 ELSE sortedVariants[1].unitPrice

\* the statements after the loop: value the loose units, build the result
FinishInventory(acc, sortedVariants) ==
  [ packBreakdown |-> acc.packBreakdown,
    looseUnits    |-> acc.remainingUnits,
    totalValue    |-> acc.totalValue + acc.remainingUnits * LooseUnitPrice(sortedVariants) ]

RECURSIVE RunLoop(_, _)
RunLoop(acc, variants) ==
  IF variants = <<>> THEN acc
  ELSE RunLoop(LoopBody(acc, Head(variants)), Tail(variants))

StartAcc(totalUnits) ==
  [ remainingUnits |-> totalUnits, packBreakdown |-> <<>>, totalValue |-> 0 ]

\* the function as a whole
calculatePackInventory(totalUnits, packVariants) ==
  LET sortedVariants == SortBySizeDesc(packVariants)
  IN  FinishInventory(RunLoop(StartAcc(totalUnits), sortedVariants), sortedVariants)

(***************************************************************************)
(* dataTransforms.createPackSaleInfo                                       *)
(***************************************************************************)
Truthy(opt) == opt # <<>> /\ opt[1] # 0

\* createPackSaleInfo counting packs as units
createPackSaleInfoPacksAsUnits(saleType, packVariant, packQuantity, unitQuantity) ==
  IF saleType = "pack" /\ packVariant # <<>> /\ Truthy(packQuantity)
  THEN [ threw |-> FALSE,
         value |-> [ saleType |-> "pack",
                     packVariantId |-> packVariant[1].id,
                     packQuantity |-> packQuantity[1],
                     unitQuantity |-> 0,
                     effectiveUnitCount |-> packQuantity[1] ] ]
  ELSE IF saleType = "unit" /\ Truthy(unitQuantity)
  THEN [ threw |-> FALSE,
         value |-> [ saleType |-> "unit",
                     packQuantity |-> 0,
                     unitQuantity |-> unitQuantity[1],
                     effectiveUnitCount |-> unitQuantity[1] ] ]
  ELSE [ threw |-> TRUE, value |-> "Invalid pack sale info parameters" ]

createPackSaleInfo(saleType, packVariant, packQuantity, unitQuantity) ==
  IF saleType = "pack" /\ packVariant # <<>> /\ Truthy(packQuantity)
  THEN [ threw |-> FALSE,
         value |-> [ saleType |-> "pack",
                     packVariantId |-> packVariant[1].id,
                     packQuantity |-> packQuantity[1],
                     unitQuantity |-> 0,
                     effectiveUnitCount |-> packQuantity[1] * packVariant[1].packSize ] ]
  ELSE IF saleType = "unit" /\ Truthy(unitQuantity)
  THEN [ threw |-> FALSE,
         value |-> [ saleType |-> "unit",
                     packQuantity |-> 0,
                     unitQuantity |-> unitQuantity[1],
                     effectiveUnitCount |-> unitQuantity[1] ] ]
  ELSE [ threw |-> TRUE, value |-> "Invalid pack sale info parameters" ]

\* the packInfo literal of ProductSearch.handleBarcodeScanned
BarcodePackInfo ==
  [ saleType |-> "unit", unitQuantity |-> 1, effectiveUnitCount |-> 1 ]

QuantityArgs == { <<>> } \cup { <<q>> : q \in -1..2 }
VariantArgs  == { <<>> } \cup { <<v>> : v \in VariantPool }

NoFrame == [ fn |-> "none" ]

\* no call of calculatePackInventory is inside its loop
NoCallRunning ==
  IF frame.fn = "calculatePackInventory" THEN frame.pc = "returned" ELSE TRUE

(***************************************************************************)
(* Cashier pages: products, cart lines, totals                             *)
(***************************************************************************)
\* The objects handed to addToCart (Omit<CartItem, "quantity">): id, price,
\* the optional stock and the optional per-unit discount of CartItem.  The
\* other fields (name, unit, category, batchNumber, expiryDate, packInfo) are
\* copied into the line and never read by the handlers modelled here.
Catalog ==
  { [id |-> "a", price |-> 10, stock |-> <<2>>, discount |-> 0],
    [id |-> "b", price |-> 5,  stock |-> <<1>>, discount |-> 8] }

ProductIds == { p.id : p \in Catalog }

\* product.currentStock || product.stockQuantity || 0, the value the add
\* buttons compare with 0
StockShown(product) == IF product.stock = <<>> THEN 0 ELSE product.stock[1]

InCart(items, id) == \E i \in 1..Len(items) : items[i].id = id

\* prev.map(item => item.id === id ? { ...item, quantity } : item)
MapQuantity(prev, id, quantity) ==
  [ i \in 1..Len(prev) |->
      IF prev[i].id = id THEN [ prev[i] EXCEPT !.quantity = quantity ] ELSE prev[i] ]

\* prev.map(item => item.id === id ? { ...item, quantity: item.quantity + 1 } : item)
MapIncrement(prev, id) ==
  [ i \in 1..Len(prev) |->
      IF prev[i].id = id THEN [ prev[i] EXCEPT !.quantity = @ + 1 ] ELSE prev[i] ]

\* FilterOut dropping the first line whatever its id
FilterOutDropsHead(prev, id) == IF prev = <<>> THEN prev ELSE Tail(prev)

\* prev.filter(item => item.id !== id)
FilterOut(prev, id) == SelectSeq(prev, LAMBDA item : item.id # id)

\* AddLine without the search for an existing line
AddLineAlwaysAppends(prev, product) ==
  Append(prev, [ id |-> product.id, price |-> product.price,
                 stock |-> product.stock, discount |-> product.discount,
                 quantity |-> 1 ])

\* the updater of CashierContent.addToCart
AddLine(prev, product) ==
  IF InCart(prev, product.id)
  THEN MapIncrement(prev, product.id)
  ELSE Append(prev, [ id |-> product.id, price |-> product.price,
                      stock |-> product.stock, discount |-> product.discount,
                      quantity |-> 1 ])

\* SetQuantity without the removal of a line whose quantity is not positive
SetQuantityAlwaysStores(prev, id, quantity) == MapQuantity(prev, id, quantity)

\* the updater of CashierContent.updateQuantity
SetQuantity(prev, id, quantity) ==
  IF quantity <= 0 THEN FilterOut(prev, id) ELSE MapQuantity(prev, id, quantity)

\* cartItems.reduce((sum, item) => sum + item.price * item.quantity, 0)
RECURSIVE ReduceSubtotal(_, _)
ReduceSubtotal(items, sum) ==
  IF items = <<>> THEN sum
  ELSE ReduceSubtotal(Tail(items), sum + Head(items).price * Head(items).quantity)

\* cartItems.reduce((sum, item) => sum + (item.discount || 0) * item.quantity, 0)
RECURSIVE ReduceDiscount(_, _)
ReduceDiscount(items, sum) ==
  IF items = <<>> THEN sum
  ELSE ReduceDiscount(Tail(items), sum + Head(items).discount * Head(items).quantity)

\* DesktopTotals with the discount counted once per line
DesktopTotalsPerLine(items) ==
  LET subtotal == ReduceSubtotal(items, 0)
      RECURSIVE PerLine(_, _)
      PerLine(rest, sum) ==
        IF rest = <<>> THEN sum ELSE PerLine(Tail(rest), sum + Head(rest).discount)
      totalDiscount == PerLine(items, 0)
  IN  [ subtotal |-> subtotal, totalDiscount |-> totalDiscount,
        total |-> subtotal - totalDiscount ]

\* subtotal, totalDiscount, total as CashierContent computes them in a render
DesktopTotals(items) ==
  LET subtotal == ReduceSubtotal(items, 0)
      totalDiscount == ReduceDiscount(items, 0)
  IN  [ subtotal |-> subtotal, totalDiscount |-> totalDiscount,
        total |-> subtotal - totalDiscount ]

(***************************************************************************)
(* Desktop cashier page: CashierContent and PaymentPanel                   *)
(***************************************************************************)
PaymentMethods == { "cash", "card", "mobile" }

\* values typed into "Cash Received", as Number.parseFloat(cashReceived) || 0
CashInputs == { 0, 15 }

Users == { [ outletId |-> <<>> ], [ outletId |-> <<"outlet1">> ] }

NoPanel == [ mounted |-> FALSE ]

\* useState initial values of PaymentPanel and of the createSale mutation
NewPanel ==
  [ mounted |-> TRUE, paymentMethod |-> "cash", cashReceived |-> 0,
    paymentSuccess |-> FALSE, saleId |-> 0, loading |-> FALSE, error |-> FALSE ]

PanelMounted == panel.mounted
OnSuccessScreen == IF panel.mounted THEN panel.paymentSuccess ELSE FALSE
OnErrorScreen == IF panel.mounted THEN ~panel.paymentSuccess /\ panel.error ELSE FALSE
OnPaymentForm == IF panel.mounted THEN ~panel.paymentSuccess /\ ~panel.error ELSE FALSE

\* PaymentPanel.canProcessPayment
canProcessPayment ==
  IF panel.paymentMethod = "cash" THEN panel.cashReceived >= totals.total ELSE TRUE

\* items.map(item => ({ productId, quantity, unitPrice, discount }))
SaleItems(items) ==
  [ i \in 1..Len(items) |->
      [ productId |-> items[i].id, quantity |-> items[i].quantity,
        unitPrice |-> items[i].price, discount |-> items[i].discount ] ]

\* the saleData object of PaymentPanel.handlePayment: items, discount and
\* outletId (paymentMethod, and batchId of each item, are copied through and
\* left out)
SaleData ==
  [ items |-> SaleItems(cartItems), discount |-> 0, outletId |-> user.outletId[1] ]

\* the calls in flight without the k-th
Remove(cs, k) == [ j \in 1..(Len(cs) - 1) |-> IF j < k THEN cs[j] ELSE cs[j + 1] ]

\* the callers of unmounted PaymentPanel instances keep running detached
Detach(cs) == [ k \in 1..Len(cs) |-> [ cs[k] EXCEPT !.live = FALSE ] ]

MobileUnmounted ==
  /\ viewState = "pos"
  /\ activeTab = "products"
  /\ paymentData = <<>>
  /\ pending = <<>>
  /\ scans = <<>>

CashierUnmounted ==
  /\ cartItems = <<>>
  /\ totals = [ subtotal |-> 0, totalDiscount |-> 0, total |-> 0 ]
  /\ user \in { [ outletId |-> <<"outlet1">> ] }
  /\ showPayment = FALSE
  /\ panel = NoPanel
  /\ calls = <<>>
  /\ submitted = 0
  /\ sold = <<>>
  /\ timers = 0
  /\ MobileUnmounted

InitDesktop ==
  /\ page = "desktop"
  /\ frame = NoFrame
  /\ lastOp = "init"
  /\ cartItems = <<>>
  /\ totals = DesktopTotals(<<>>)
  /\ user \in Users
  /\ showPayment = FALSE
  /\ panel = NoPanel
  /\ calls = <<>>
  /\ submitted = 0
  /\ sold = <<>>
  /\ timers = 0
  /\ MobileUnmounted
  /\ InventoryUnmounted
  /\ AuthUnmounted

\* a render of CashierContent after the state update
DesktopRender == totals' = DesktopTotals(cartItems')

\* CashierContent.addToCart, from an add button of ProductSearch or
\* QuickActions (disabled when the product shows stock 0)
D_AddToCart(product) ==
  /\ page = "desktop"
  /\ StockShown(product) # 0
  /\ \A i \in 1..Len(cartItems) : cartItems[i].id = product.id => cartItems[i].quantity < MaxQty
  /\ cartItems' = AddLine(cartItems, product)
  /\ lastOp' = "addToCart"
  /\ UNCHANGED << page, authVars, inventoryVars, frame, user, showPayment, panel, calls, submitted, sold, timers, mobileVars >>
  /\ DesktopRender

\* CashierContent.addToCart, from ProductSearch.handleBarcodeScanned
D_BarcodeScanned(product) ==
  /\ page = "desktop"
  /\ \A i \in 1..Len(cartItems) : cartItems[i].id = product.id => cartItems[i].quantity < MaxQty
  /\ cartItems' = AddLine(cartItems, product)
  /\ lastOp' = "addToCart"
  /\ UNCHANGED << page, authVars, inventoryVars, frame, user, showPayment, panel, calls, submitted, sold, timers, mobileVars >>
  /\ DesktopRender

\* CashierContent.updateQuantity, from the ShoppingCart
D_UpdateQuantity(id, quantity) ==
  /\ page = "desktop"
  /\ ~showPayment
  /\ cartItems' = SetQuantity(cartItems, id, quantity)
  /\ lastOp' = "updateQuantity"
  /\ UNCHANGED << page, authVars, inventoryVars, frame, user, showPayment, panel, calls, submitted, sold, timers, mobileVars >>
  /\ DesktopRender

\* CashierContent.removeFromCart, from the ShoppingCart
D_RemoveFromCart(id) ==
  /\ page = "desktop"
  /\ ~showPayment
  /\ cartItems' = FilterOut(cartItems, id)
  /\ lastOp' = "removeFromCart"
  /\ UNCHANGED << page, authVars, inventoryVars, frame, user, showPayment, panel, calls, submitted, sold, timers, mobileVars >>
  /\ DesktopRender

\* the body of CashierContent.clearCart
ClearCartEffect ==
  /\ cartItems' = <<>>
  /\ showPayment' = FALSE
  /\ panel' = NoPanel
  /\ calls' = Detach(calls)
  /\ DesktopRender

\* CashierContent.clearCart, from the ShoppingCart's clear button
D_ClearCart ==
  /\ page = "desktop"
  /\ ~showPayment
  /\ ClearCartEffect
  /\ lastOp' = "clearCart"
  /\ UNCHANGED << page, authVars, inventoryVars, frame, user, submitted, sold, timers, mobileVars >>

\* onProceedToPayment: setShowPayment(true) mounts a PaymentPanel
D_ProceedToPayment ==
  /\ page = "desktop"
  /\ ~showPayment
  /\ showPayment' = TRUE
  /\ panel' = NewPanel
  /\ lastOp' = "onProceedToPayment"
  /\ UNCHANGED << page, authVars, inventoryVars, frame, user, cartItems, calls, submitted, sold, timers, mobileVars >>
  /\ DesktopRender

\* onBack: setShowPayment(false) unmounts the PaymentPanel (the back buttons
\* of the payment form and of the error screen)
D_Back ==
  /\ page = "desktop"
  /\ OnPaymentForm \/ OnErrorScreen
  /\ showPayment' = FALSE
  /\ panel' = NoPanel
  /\ calls' = Detach(calls)
  /\ lastOp' = "onBack"
  /\ UNCHANGED << page, authVars, inventoryVars, frame, user, cartItems, submitted, sold, timers, mobileVars >>
  /\ DesktopRender

D_SetPaymentMethod(method) ==
  /\ page = "desktop"
  /\ OnPaymentForm
  /\ panel' = [ panel EXCEPT !.paymentMethod = method ]
  /\ lastOp' = "setPaymentMethod"
  /\ UNCHANGED << page, authVars, inventoryVars, frame, user, cartItems, showPayment, calls, submitted, sold, timers, mobileVars >>
  /\ DesktopRender

D_SetCashReceived(amount) ==
  /\ page = "desktop"
  /\ OnPaymentForm
  /\ panel.paymentMethod = "cash"
  /\ panel' = [ panel EXCEPT !.cashReceived = amount ]
  /\ lastOp' = "setCashReceived"
  /\ UNCHANGED << page, authVars, inventoryVars, frame, user, cartItems, showPayment, calls, submitted, sold, timers, mobileVars >>
  /\ DesktopRender

\* PaymentPanel.handlePayment up to the await: the "Complete Payment" button
\* is enabled when canProcessPayment() and not createSale.loading
D_HandlePayment ==
  /\ page = "desktop"
  /\ OnPaymentForm
  /\ canProcessPayment /\ ~panel.loading
  /\ submitted < MaxSubmit /\ Len(calls) < MaxInFlight
  /\ IF user.outletId = <<>>
     THEN UNCHANGED << panel, calls, submitted >>
     ELSE /\ calls' = Append(calls, [ saleData |-> SaleData, live |-> TRUE ])
          /\ submitted' = submitted + 1
          /\ panel' = [ panel EXCEPT !.loading = TRUE, !.error = FALSE ]
  /\ lastOp' = "handlePayment"
  /\ UNCHANGED << page, authVars, inventoryVars, frame, user, cartItems, showPayment, sold, timers, mobileVars >>
  /\ DesktopRender

\* createSale.mutate resolves: setSaleId, setPaymentSuccess(true) and the
\* 3 second timer; the state setters of an unmounted panel have no effect
D_SaleResolved(k) ==
  /\ page = "desktop"
  /\ k \in 1..Len(calls)
  /\ calls' = Remove(calls, k)
  /\ sold' = << calls[k].saleData.items >>
  /\ panel' = IF calls[k].live
              THEN [ panel EXCEPT !.saleId = 1, !.paymentSuccess = TRUE, !.loading = FALSE ]
              ELSE panel
  /\ timers' = timers + 1
  /\ lastOp' = "createSale.resolved"
  /\ UNCHANGED << page, authVars, inventoryVars, frame, user, cartItems, showPayment, submitted, mobileVars >>
  /\ DesktopRender

\* D_SaleRejected with the catch block completing the payment all the same
D_SaleRejectedCompletes(k) ==
  /\ page = "desktop"
  /\ k \in 1..Len(calls)
  /\ calls' = Remove(calls, k)
  /\ panel' = IF calls[k].live
              THEN [ panel EXCEPT !.error = TRUE, !.loading = FALSE ]
              ELSE panel
  /\ timers' = timers + 1
  /\ lastOp' = "createSale.rejected"
  /\ UNCHANGED << page, authVars, inventoryVars, frame, user, cartItems, showPayment, submitted, sold, mobileVars >>
  /\ DesktopRender

\* createSale.mutate rejects: the hook records the error, the catch block
\* only logs
D_SaleRejected(k) ==
  /\ page = "desktop"
  /\ k \in 1..Len(calls)
  /\ calls' = Remove(calls, k)
  /\ panel' = IF calls[k].live
              THEN [ panel EXCEPT !.error = TRUE, !.loading = FALSE ]
              ELSE panel
  /\ lastOp' = "createSale.rejected"
  /\ UNCHANGED << page, authVars, inventoryVars, frame, user, cartItems, showPayment, submitted, sold, timers, mobileVars >>
  /\ DesktopRender

\* the 3 second timer calls onPaymentComplete = clearCart
D_TimerFires ==
  /\ page = "desktop"
  /\ timers > 0
  /\ timers' = timers - 1
  /\ ClearCartEffect
  /\ lastOp' = "onPaymentComplete"
  /\ UNCHANGED << page, authVars, inventoryVars, frame, user, submitted, sold, mobileVars >>

\* "Print Receipt & Continue" calls onPaymentComplete = clearCart
D_PrintReceipt ==
  /\ page = "desktop"
  /\ OnSuccessScreen
  /\ ClearCartEffect
  /\ lastOp' = "onPaymentComplete"
  /\ UNCHANGED << page, authVars, inventoryVars, frame, user, submitted, sold, timers, mobileVars >>

\* the retry button of the error screen: createSale.reset()
D_Retry ==
  /\ page = "desktop"
  /\ OnErrorScreen
  /\ panel' = [ panel EXCEPT !.error = FALSE ]
  /\ lastOp' = "createSale.reset"
  /\ UNCHANGED << page, authVars, inventoryVars, frame, user, cartItems, showPayment, calls, submitted, sold, timers, mobileVars >>
  /\ DesktopRender


(***************************************************************************)
(* Mobile cashier page: MobileCashierPage, PaymentProcessingMobile and     *)
(* ProductSearchMobile.  The handlers of MobileCashierPage read cartItems  *)
(* and activeTab from the render that created them; an asynchronous caller *)
(* keeps the handler of the render in which it started.                    *)
(***************************************************************************)
MobilePaymentMethods == { "cash", "card", "mobile", "mixed" }
AmountInputs == { 0, 10 }
MobileNumbers == { "", "076123456" }

\* useState initial values of PaymentProcessingMobile
NewMobilePanel ==
  [ mounted |-> TRUE, paymentMethod |-> "cash", cashReceived |-> 0,
    cardAmount |-> 0, mobileAmount |-> 0, mobileNumber |-> "", processing |-> FALSE ]

\* MobileCashierPage.addToCart evaluated in a render that saw `items`
MobileAdd(items, product) ==
  IF InCart(items, product.id)
  THEN MapIncrement(items, product.id)
  ELSE Append(items, [ id |-> product.id, price |-> product.price,
                       stock |-> <<>>, discount |-> 0, quantity |-> 1 ])

\* subtotal, totalDiscount, total as MobileCashierPage computes them
MobileTotals(items) ==
  LET subtotal == ReduceSubtotal(items, 0)
      totalDiscount == 0
  IN  [ subtotal |-> subtotal, totalDiscount |-> totalDiscount,
        total |-> subtotal - totalDiscount ]

Max0(x) == IF x > 0 THEN x ELSE 0

mixedTotalPaid ==
  panel.cardAmount + panel.mobileAmount
    + (IF panel.paymentMethod = "mixed" THEN panel.cashReceived ELSE 0)

\* mixedShortfall with the difference taken the wrong way round
mixedShortfallReversed ==
  IF panel.paymentMethod = "mixed" THEN Max0(mixedTotalPaid - totals.total) ELSE 0

mixedShortfall ==
  IF panel.paymentMethod = "mixed" THEN Max0(totals.total - mixedTotalPaid) ELSE 0

\* PaymentProcessingMobile.isPaymentValid
isPaymentValid ==
  CASE panel.paymentMethod = "cash"   -> panel.cashReceived >= totals.total
    [] panel.paymentMethod = "card"   -> TRUE
    [] panel.paymentMethod = "mobile" -> panel.mobileNumber # ""
    [] panel.paymentMethod = "mixed"  -> mixedShortfall = 0
    [] OTHER -> FALSE

\* the paymentData object of PaymentProcessingMobile.handlePayment (customer
\* and timestamp left out)
BuildPaymentData ==
  LET base == [ method |-> panel.paymentMethod, total |-> totals.total, items |-> cartItems ]
  IN  CASE panel.paymentMethod = "cash" ->
             [ method |-> base.method, total |-> base.total, items |-> base.items,
               cashReceived |-> panel.cashReceived,
               change |-> Max0(panel.cashReceived - totals.total) ]
        [] panel.paymentMethod = "card" ->
             [ method |-> base.method, total |-> base.total, items |-> base.items,
               cardAmount |-> totals.total ]
        [] panel.paymentMethod = "mobile" ->
             [ method |-> base.method, total |-> base.total, items |-> base.items,
               mobileAmount |-> totals.total, mobileNumber |-> panel.mobileNumber ]
        [] OTHER ->
             [ method |-> base.method, total |-> base.total, items |-> base.items,
               cashAmount |-> panel.cashReceived, cardAmount |-> panel.cardAmount,
               mobileAmount |-> panel.mobileAmount,
               mobileNumber |-> IF panel.mobileAmount > 0 THEN panel.mobileNumber ELSE "" ]

InitMobile ==
  /\ page = "mobile"
  /\ frame = NoFrame
  /\ lastOp = "init"
  /\ cartItems = <<>>
  /\ totals = MobileTotals(<<>>)
  /\ user \in { [ outletId |-> <<"outlet1">> ] }
  /\ showPayment = FALSE
  /\ panel = NoPanel
  /\ calls = <<>>
  /\ submitted = 0
  /\ sold = <<>>
  /\ timers = 0
  /\ MobileUnmounted
  /\ InventoryUnmounted
  /\ AuthUnmounted

\* a render of MobileCashierPage after the state update
MobileRender == totals' = MobileTotals(cartItems')

ProductSearchShown == viewState = "pos" /\ activeTab = "products"
CartShown == viewState = "pos" /\ activeTab = "cart"
MobileFormShown == IF viewState = "payment" THEN panel.mounted ELSE FALSE

\* MobileCashierPage.addToCart from an add button of ProductSearchMobile
\* (disabled when the product shows stock 0)
M_AddToCart(product) ==
  /\ page = "mobile"
  /\ ProductSearchShown
  /\ StockShown(product) # 0
  /\ \A i \in 1..Len(cartItems) : cartItems[i].id = product.id => cartItems[i].quantity < MaxQty
  /\ cartItems' = MobileAdd(cartItems, product)
  /\ activeTab' = IF activeTab = "products" THEN "cart" ELSE activeTab
  /\ lastOp' = "addToCart"
  /\ UNCHANGED << page, authVars, inventoryVars, frame, panel, submitted, sold, desktopVars, viewState, paymentData, pending, scans >>
  /\ MobileRender

\* ProductSearchMobile.handleBarcodeScanned up to `await handleScan(barcode)`:
\* the call keeps onAddToCart of the current render
M_ScanStart(product) ==
  /\ page = "mobile"
  /\ ProductSearchShown
  /\ Len(scans) < MaxScans
  /\ scans' = Append(scans, [ product |-> product, cartItems |-> cartItems,
                              activeTab |-> activeTab ])
  /\ lastOp' = "handleBarcodeScanned"
  /\ UNCHANGED << page, authVars, inventoryVars, frame, cartItems, panel, submitted, sold, desktopVars, viewState, activeTab, paymentData, pending >>
  /\ MobileRender

\* the lookup succeeds: handleAddToCart(result.product) runs addToCart of the
\* render in which the scan started
M_ScanFound(k) ==
  /\ page = "mobile"
  /\ k \in 1..Len(scans)
  /\ \A i \in 1..Len(scans[k].cartItems) :
       scans[k].cartItems[i].id = scans[k].product.id => scans[k].cartItems[i].quantity < MaxQty
  /\ cartItems' = MobileAdd(scans[k].cartItems, scans[k].product)
  /\ activeTab' = IF scans[k].activeTab = "products" THEN "cart" ELSE activeTab
  /\ scans' = Remove(scans, k)
  /\ lastOp' = "addToCart.scanned"
  /\ UNCHANGED << page, authVars, inventoryVars, frame, panel, submitted, sold, desktopVars, viewState, paymentData, pending >>
  /\ MobileRender

\* the lookup fails: only an error toast
M_ScanNotFound(k) ==
  /\ page = "mobile"
  /\ k \in 1..Len(scans)
  /\ scans' = Remove(scans, k)
  /\ lastOp' = "handleBarcodeScanned.notFound"
  /\ UNCHANGED << page, authVars, inventoryVars, frame, cartItems, panel, submitted, sold, desktopVars, viewState, activeTab, paymentData, pending >>
  /\ MobileRender

\* MobileCashierPage.updateQuantity, from the ShoppingCartMobile
M_UpdateQuantity(id, quantity) ==
  /\ page = "mobile"
  /\ CartShown
  /\ cartItems' = SetQuantity(cartItems, id, quantity)
  /\ lastOp' = "updateQuantity"
  /\ UNCHANGED << page, authVars, inventoryVars, frame, panel, submitted, sold, desktopVars, mobileVars >>
  /\ MobileRender

\* MobileCashierPage.removeItem
M_RemoveItem(id) ==
  /\ page = "mobile"
  /\ CartShown
  /\ cartItems' = FilterOut(cartItems, id)
  /\ lastOp' = "removeFromCart"
  /\ UNCHANGED << page, authVars, inventoryVars, frame, panel, submitted, sold, desktopVars, mobileVars >>
  /\ MobileRender

\* MobileCashierPage.clearCart
M_ClearCart ==
  /\ page = "mobile"
  /\ CartShown
  /\ cartItems' = <<>>
  /\ lastOp' = "clearCart"
  /\ UNCHANGED << page, authVars, inventoryVars, frame, panel, submitted, sold, desktopVars, mobileVars >>
  /\ MobileRender

\* the tab buttons: setActiveTab
M_SetActiveTab(tab) ==
  /\ page = "mobile"
  /\ viewState = "pos"
  /\ tab # activeTab
  /\ activeTab' = tab
  /\ lastOp' = "setActiveTab"
  /\ UNCHANGED << page, authVars, inventoryVars, frame, cartItems, panel, submitted, sold, desktopVars, viewState, paymentData, pending, scans >>
  /\ MobileRender

\* MobileCashierPage.handleProceedToPayment
M_ProceedToPayment ==
  /\ page = "mobile"
  /\ CartShown
  /\ viewState' = "payment"
  /\ panel' = NewMobilePanel
  /\ lastOp' = "onProceedToPayment"
  /\ UNCHANGED << page, authVars, inventoryVars, frame, cartItems, submitted, sold, desktopVars, activeTab, paymentData, pending, scans >>
  /\ MobileRender

\* onBack of PaymentProcessingMobile: setViewState("pos")
M_Back ==
  /\ page = "mobile"
  /\ MobileFormShown
  /\ viewState' = "pos"
  /\ panel' = NoPanel
  /\ lastOp' = "onBack"
  /\ UNCHANGED << page, authVars, inventoryVars, frame, cartItems, submitted, sold, desktopVars, activeTab, paymentData, pending, scans >>
  /\ MobileRender

M_SetPaymentMethod(method) ==
  /\ page = "mobile"
  /\ MobileFormShown
  /\ panel' = [ panel EXCEPT !.paymentMethod = method ]
  /\ lastOp' = "setPaymentMethod"
  /\ UNCHANGED << page, authVars, inventoryVars, frame, cartItems, submitted, sold, desktopVars, mobileVars >>
  /\ MobileRender

\* the amount and number inputs; each is rendered for the methods that use it
M_SetCashReceived(amount) ==
  /\ page = "mobile"
  /\ MobileFormShown
  /\ panel.paymentMethod \in { "cash", "mixed" }
  /\ panel' = [ panel EXCEPT !.cashReceived = amount ]
  /\ lastOp' = "setCashReceived"
  /\ UNCHANGED << page, authVars, inventoryVars, frame, cartItems, submitted, sold, desktopVars, mobileVars >>
  /\ MobileRender

M_SetCardAmount(amount) ==
  /\ page = "mobile"
  /\ MobileFormShown
  /\ panel.paymentMethod = "mixed"
  /\ panel' = [ panel EXCEPT !.cardAmount = amount ]
  /\ lastOp' = "setCardAmount"
  /\ UNCHANGED << page, authVars, inventoryVars, frame, cartItems, submitted, sold, desktopVars, mobileVars >>
  /\ MobileRender

M_SetMobileAmount(amount) ==
  /\ page = "mobile"
  /\ MobileFormShown
  /\ panel.paymentMethod = "mixed"
  /\ panel' = [ panel EXCEPT !.mobileAmount = amount ]
  /\ lastOp' = "setMobileAmount"
  /\ UNCHANGED << page, authVars, inventoryVars, frame, cartItems, submitted, sold, desktopVars, mobileVars >>
  /\ MobileRender

M_SetMobileNumber(number) ==
  /\ page = "mobile"
  /\ MobileFormShown
  /\ panel.paymentMethod \in { "mobile", "mixed" }
  /\ panel' = [ panel EXCEPT !.mobileNumber = number ]
  /\ lastOp' = "setMobileNumber"
  /\ UNCHANGED << page, authVars, inventoryVars, frame, cartItems, submitted, sold, desktopVars, mobileVars >>
  /\ MobileRender

\* PaymentProcessingMobile.handlePayment up to the await of the simulated
\* processing delay; the pay button is disabled when the payment is not valid
\* or while processing
M_HandlePayment ==
  /\ page = "mobile"
  /\ MobileFormShown
  /\ isPaymentValid /\ ~panel.processing
  /\ Len(pending) < MaxInFlight
  /\ panel' = [ panel EXCEPT !.processing = TRUE ]
  /\ pending' = Append(pending, BuildPaymentData)
  /\ lastOp' = "handlePayment"
  /\ UNCHANGED << page, authVars, inventoryVars, frame, cartItems, submitted, sold, desktopVars, viewState, activeTab, paymentData, scans >>
  /\ MobileRender

\* the delay is over: onPaymentComplete(paymentData), that is
\* MobileCashierPage.handlePaymentComplete, shows the receipt
M_PaymentComplete(k) ==
  /\ page = "mobile"
  /\ k \in 1..Len(pending)
  /\ paymentData' = << pending[k] >>
  /\ viewState' = "receipt"
  /\ panel' = NoPanel
  /\ pending' = Remove(pending, k)
  /\ lastOp' = "handlePaymentComplete"
  /\ UNCHANGED << page, authVars, inventoryVars, frame, cartItems, submitted, sold, desktopVars, activeTab, scans >>
  /\ MobileRender

\* MobileCashierPage.handleNewSale, from the receipt
M_NewSale ==
  /\ page = "mobile"
  /\ viewState = "receipt"
  /\ cartItems' = <<>>
  /\ paymentData' = <<>>
  /\ viewState' = "pos"
  /\ activeTab' = "products"
  /\ lastOp' = "handleNewSale"
  /\ UNCHANGED << page, authVars, inventoryVars, frame, panel, submitted, sold, desktopVars, pending, scans >>
  /\ MobileRender

(***************************************************************************)
(* The manager's inventory page: InventoryManagement                       *)
(* A text is the sequence of its characters.  Of an InventoryItem the      *)
(* model keeps productId and currentStock; of the adjustment sent to the   *)
(* API it keeps productId, adjustedQuantity, reason and type (outletId and *)
(* adjustedBy are copied through unchanged).  stats and the values inside  *)
(* thresholds are display data and are left out.  The inventory API is     *)
(* outside the source: a call in flight may resolve or reject, and a fetch *)
(* may return any item list.  The Dialog component is outside the source   *)
(* as well: the model does not assume that an open dialog blocks the       *)
(* controls behind it.                                                     *)
(***************************************************************************)
StockValues == { <<>> } \cup { <<n>> : n \in 0..MaxStock }

\* what apiClient.inventory.getItems can return
ItemLists ==
  { <<>> } \cup { << [ productId |-> productId, currentStock |-> currentStock ] >> :
                    productId \in InventoryProducts, currentStock \in StockValues }

\* texts typed into the reason box
ReasonTexts == { <<>>, <<" ">>, <<"r", " ">> }

\* texts typed into the quantity box, and parseInt of each (<<>> is NaN)
TypedTexts == { "", "-1", "0", "2" }
ParseInt(text) ==
  CASE text = ""   -> <<>>
    [] text = "-1" -> <<-1>>
    [] text = "0"  -> <<0>>
    [] text = "2"  -> <<2>>

\* x || 0
OrZero(x) == IF x = <<>> THEN 0 ELSE x[1]

RECURSIVE TrimStart(_)
TrimStart(s) == IF s # <<>> /\ Head(s) = " " THEN TrimStart(Tail(s)) ELSE s

RECURSIVE TrimEnd(_)
TrimEnd(s) ==
  IF s # <<>> /\ s[Len(s)] = " " THEN TrimEnd(SubSeq(s, 1, Len(s) - 1)) ELSE s

\* String.prototype.trim
Trim(s) == TrimEnd(TrimStart(s))

\* inventoryItems.find(item => item.productId === productId): <<>> or << item >>
FindItem(items, productId) ==
  LET hits == SelectSeq(items, LAMBDA item : item.productId = productId)
  IN  IF hits = <<>> THEN <<>> ELSE << Head(hits) >>

\* item.currentStock ?? 0
StockOrZero(item) == OrZero(item.currentStock)

\* adjustments[item.productId] ?? item.currentStock ?? 0
currentAdjustment(item) ==
  IF adjustments[item.productId] # <<>> THEN adjustments[item.productId][1]
  ELSE StockOrZero(item)

\* the three returns of the component
LoadingShown == loading
ErrorShown == ~loading /\ error # <<>>
MainShown == ~loading /\ error = <<>>
ReasonDialogShown == MainShown /\ isReasonOpen /\ pendingAdjustment # <<>>
ThresholdDialogShown == MainShown /\ isThresholdOpen /\ thresholds # <<>>

GetItemsRequest(from) == [ api |-> "getItems", from |-> from, payload |-> <<>> ]

\* newQuantity - (currentItem.currentStock ?? 0) with currentStock left out
quantityDiffIgnoresStock(newQuantity, currentItem) == newQuantity

\* newQuantity - (currentItem.currentStock ?? 0)
quantityDiff(newQuantity, currentItem) == newQuantity - StockOrZero(currentItem)

\* the argument of apiClient.inventory.adjust
AdjustmentOf(productId, newQuantity, currentItem, reason) ==
  LET diff == quantityDiff(newQuantity, currentItem)
  IN  [ productId |-> productId,
        adjustedQuantity |-> diff,
        reason |-> reason,
        type |-> IF diff > 0 THEN "increase" ELSE "decrease" ]

\* quantityDiff === 0 never holding
NoChangeNever(diff) == FALSE

\* quantityDiff === 0
NoChange(diff) == diff = 0

\* !adjustmentReason.trim() answering that a blank reason is present
ReasonMissingNever(reason) == FALSE

\* !adjustmentReason.trim()
ReasonMissing(reason) == Trim(reason) = <<>>

\* fetchInventoryData up to its await
StartFetch(from, others) ==
  /\ loading' = TRUE
  /\ error' = <<>>
  /\ requests' = Append(others, GetItemsRequest(from))

\* the statements that follow `await fetchInventoryData()` in each caller
AfterFetch(from) ==
  CASE from = "mount" ->
         UNCHANGED << adjustmentReason, adjustments, refreshing, isReasonOpen,
                      pendingAdjustment, isThresholdOpen, thresholds >>
    [] from = "refresh" ->
         /\ refreshing' = FALSE
         /\ UNCHANGED << adjustmentReason, adjustments, isReasonOpen,
                         pendingAdjustment, isThresholdOpen, thresholds >>
    [] from = "adjust" ->
         /\ adjustmentReason' = <<>>
         /\ adjustments' = [ productId \in InventoryProducts |-> <<>> ]
         /\ isReasonOpen' = FALSE
         /\ pendingAdjustment' = <<>>
         /\ UNCHANGED << refreshing, isThresholdOpen, thresholds >>
    [] from = "thresholds" ->
         /\ isThresholdOpen' = FALSE
         /\ thresholds' = <<>>
         /\ UNCHANGED << adjustmentReason, adjustments, refreshing, isReasonOpen,
                         pendingAdjustment >>

\* useEffect(() => fetchInventoryData(), []) has run
InventoryMounted ==
  /\ page = "inventory"
  /\ frame = NoFrame
  /\ lastOp = "init"
  /\ CashierUnmounted
  /\ AuthUnmounted
  /\ adjustmentReason = <<>>
  /\ inventoryItems = <<>>
  /\ loading = TRUE
  /\ error = <<>>
  /\ adjustments = [ productId \in InventoryProducts |-> <<>> ]
  /\ refreshing = FALSE
  /\ isReasonOpen = FALSE
  /\ pendingAdjustment = <<>>
  /\ isThresholdOpen = FALSE
  /\ thresholds = <<>>
  /\ requests = << GetItemsRequest("mount") >>

\* the page with a backend whose answers are left open
InitInventory == InventoryMounted /\ serverStock = <<>>

\* the page with a backend that records the stock of the product
InitStock == InventoryMounted /\ serverStock \in { << stock >> : stock \in 0..MaxStock }

\* fetchInventoryData after its await: both calls resolved
I_FetchResolved(k, itemsData) ==
  /\ page = "inventory"
  /\ k \in 1..Len(requests)
  /\ requests[k].api = "getItems"
  /\ inventoryItems' = itemsData
  /\ loading' = FALSE
  /\ requests' = Remove(requests, k)
  /\ AfterFetch(requests[k].from)
  /\ lastOp' = "fetchInventoryData.resolved"
  /\ UNCHANGED << page, authVars, frame, cashierVars, serverStock, error >>

\* fetchInventoryData after its await: a call rejected; the error is caught
\* inside, so the caller continues as after a successful fetch
I_FetchRejected(k) ==
  /\ page = "inventory"
  /\ k \in 1..Len(requests)
  /\ requests[k].api = "getItems"
  /\ error' = << "Failed to fetch inventory data" >>
  /\ loading' = FALSE
  /\ requests' = Remove(requests, k)
  /\ AfterFetch(requests[k].from)
  /\ lastOp' = "fetchInventoryData.rejected"
  /\ UNCHANGED << page, authVars, frame, cashierVars, serverStock, inventoryItems >>

\* handleRefresh up to its await
I_Refresh ==
  /\ page = "inventory"
  /\ MainShown
  /\ ~refreshing
  /\ Len(requests) < MaxRequests
  /\ refreshing' = TRUE
  /\ StartFetch("refresh", requests)
  /\ lastOp' = "handleRefresh"
  /\ UNCHANGED << page, authVars, frame, cashierVars, serverStock, adjustmentReason, inventoryItems, adjustments,
                  isReasonOpen, pendingAdjustment, isThresholdOpen, thresholds >>

\* handleQuantityChange
I_QuantityChange(productId, newQuantity, op) ==
  /\ adjustments' = [ adjustments EXCEPT ![productId] = << newQuantity >> ]
  /\ lastOp' = op
  /\ UNCHANGED << page, authVars, frame, cashierVars, serverStock, adjustmentReason, inventoryItems, loading, error,
                  refreshing, isReasonOpen, pendingAdjustment, isThresholdOpen, thresholds,
                  requests >>

\* the minus button of a row
I_Minus(i) ==
  /\ page = "inventory"
  /\ MainShown
  /\ i \in 1..Len(inventoryItems)
  /\ I_QuantityChange(inventoryItems[i].productId,
                      Max0(currentAdjustment(inventoryItems[i]) - 1), "quantity.minus")

\* the plus button of a row
I_Plus(i) ==
  /\ page = "inventory"
  /\ MainShown
  /\ i \in 1..Len(inventoryItems)
  /\ currentAdjustment(inventoryItems[i]) < MaxTarget
  /\ I_QuantityChange(inventoryItems[i].productId,
                      currentAdjustment(inventoryItems[i]) + 1, "quantity.plus")

\* the number box of a row
I_Typed(i, text) ==
  /\ page = "inventory"
  /\ MainShown
  /\ i \in 1..Len(inventoryItems)
  /\ I_QuantityChange(inventoryItems[i].productId, OrZero(ParseInt(text)), "quantity.typed")

\* openReasonModal, from the Apply button of a row
I_OpenReasonModal(i) ==
  /\ page = "inventory"
  /\ MainShown
  /\ i \in 1..Len(inventoryItems)
  /\ currentAdjustment(inventoryItems[i]) # StockOrZero(inventoryItems[i])
  /\ pendingAdjustment' = << [ productId |-> inventoryItems[i].productId,
                               newQuantity |-> currentAdjustment(inventoryItems[i]) ] >>
  /\ isReasonOpen' = TRUE
  /\ lastOp' = "openReasonModal"
  /\ UNCHANGED << page, authVars, frame, cashierVars, serverStock, adjustmentReason, inventoryItems, loading, error,
                  adjustments, refreshing, isThresholdOpen, thresholds, requests >>

\* the reason box of the dialog
I_SetAdjustmentReason(reason) ==
  /\ page = "inventory"
  /\ ReasonDialogShown
  /\ adjustmentReason' = reason
  /\ lastOp' = "setAdjustmentReason"
  /\ UNCHANGED << page, authVars, frame, cashierVars, serverStock, inventoryItems, loading, error, adjustments,
                  refreshing, isReasonOpen, pendingAdjustment, isThresholdOpen, thresholds,
                  requests >>

\* Cancel of the reason dialog, and the dialog's onOpenChange(false)
I_CloseReason ==
  /\ page = "inventory"
  /\ MainShown
  /\ isReasonOpen
  /\ isReasonOpen' = FALSE
  /\ lastOp' = "setIsReasonOpen"
  /\ UNCHANGED << page, authVars, frame, cashierVars, serverStock, adjustmentReason, inventoryItems, loading, error,
                  adjustments, refreshing, pendingAdjustment, isThresholdOpen, thresholds,
                  requests >>

\* handleStockAdjustment up to its await, from Confirm of the reason dialog
I_HandleStockAdjustment ==
  /\ page = "inventory"
  /\ ReasonDialogShown
  /\ LET productId == pendingAdjustment[1].productId
         newQuantity == pendingAdjustment[1].newQuantity
         currentItem == FindItem(inventoryItems, productId)
     IN  IF ReasonMissing(adjustmentReason)
         THEN /\ error' = << "Please provide a reason for the adjustment" >>
              /\ lastOp' = "handleStockAdjustment.missingReason"
              /\ UNCHANGED requests
         ELSE IF currentItem = <<>>
         THEN /\ lastOp' = "handleStockAdjustment.noItem"
              /\ UNCHANGED << error, requests >>
         ELSE IF NoChange(quantityDiff(newQuantity, currentItem[1]))
         THEN /\ lastOp' = "handleStockAdjustment.noChange"
              /\ UNCHANGED << error, requests >>
         ELSE /\ Len(requests) < MaxRequests
              /\ requests' = Append(requests,
                     [ api |-> "adjust", from |-> "adjust",
                       payload |-> << AdjustmentOf(productId, newQuantity, currentItem[1],
                                                   adjustmentReason) >> ])
              /\ lastOp' = "handleStockAdjustment.adjust"
              /\ UNCHANGED error
  /\ UNCHANGED << page, authVars, frame, cashierVars, serverStock, adjustmentReason, inventoryItems, loading,
                  adjustments, refreshing, isReasonOpen, pendingAdjustment, isThresholdOpen,
                  thresholds >>

\* the backend adding the delta it received to the stock it has recorded
ApplyAdjustment(stock, adjustment) ==
  IF stock = <<>> THEN <<>> ELSE << stock[1] + adjustment.adjustedQuantity >>

\* handleStockAdjustment after apiClient.inventory.adjust resolved (the
\* backend has applied adjustedQuantity, within 0..MaxTarget): the refresh
\* starts
I_AdjustResolved(k) ==
  /\ page = "inventory"
  /\ k \in 1..Len(requests)
  /\ requests[k].api = "adjust"
  /\ serverStock' = ApplyAdjustment(serverStock, requests[k].payload[1])
  /\ IF serverStock' = <<>> THEN TRUE ELSE serverStock'[1] \in 0..MaxTarget
  /\ StartFetch("adjust", Remove(requests, k))
  /\ lastOp' = "adjust.resolved"
  /\ UNCHANGED << page, authVars, frame, cashierVars, adjustmentReason, inventoryItems, adjustments,
                  refreshing, isReasonOpen, pendingAdjustment, isThresholdOpen, thresholds >>

\* handleStockAdjustment after apiClient.inventory.adjust rejected: the catch
I_AdjustRejected(k) ==
  /\ page = "inventory"
  /\ k \in 1..Len(requests)
  /\ requests[k].api = "adjust"
  /\ requests' = Remove(requests, k)
  /\ error' = << "Failed to adjust inventory" >>
  /\ lastOp' = "adjust.rejected"
  /\ UNCHANGED << page, authVars, frame, cashierVars, serverStock, adjustmentReason, inventoryItems, loading,
                  adjustments, refreshing, isReasonOpen, pendingAdjustment, isThresholdOpen,
                  thresholds >>

\* openThresholdModal
I_OpenThresholdModal(i) ==
  /\ page = "inventory"
  /\ MainShown
  /\ i \in 1..Len(inventoryItems)
  /\ thresholds' = << inventoryItems[i].productId >>
  /\ isThresholdOpen' = TRUE
  /\ lastOp' = "openThresholdModal"
  /\ UNCHANGED << page, authVars, frame, cashierVars, serverStock, adjustmentReason, inventoryItems, loading, error,
                  adjustments, refreshing, isReasonOpen, pendingAdjustment, requests >>

\* Cancel of the thresholds dialog, and the dialog's onOpenChange(false)
I_CloseThresholds ==
  /\ page = "inventory"
  /\ MainShown
  /\ isThresholdOpen
  /\ isThresholdOpen' = FALSE
  /\ lastOp' = "setIsThresholdOpen"
  /\ UNCHANGED << page, authVars, frame, cashierVars, serverStock, adjustmentReason, inventoryItems, loading, error,
                  adjustments, refreshing, isReasonOpen, pendingAdjustment, thresholds,
                  requests >>

\* saveThresholds up to its await
I_SaveThresholds ==
  /\ page = "inventory"
  /\ ThresholdDialogShown
  /\ Len(requests) < MaxRequests
  /\ requests' = Append(requests, [ api |-> "updateItem", from |-> "thresholds",
                                    payload |-> <<>> ])
  /\ lastOp' = "saveThresholds"
  /\ UNCHANGED << page, authVars, frame, cashierVars, serverStock, adjustmentReason, inventoryItems, loading, error,
                  adjustments, refreshing, isReasonOpen, pendingAdjustment, isThresholdOpen,
                  thresholds >>

\* saveThresholds after apiClient.inventory.updateItem resolved
I_UpdateResolved(k) ==
  /\ page = "inventory"
  /\ k \in 1..Len(requests)
  /\ requests[k].api = "updateItem"
  /\ StartFetch("thresholds", Remove(requests, k))
  /\ lastOp' = "updateItem.resolved"
  /\ UNCHANGED << page, authVars, frame, cashierVars, serverStock, adjustmentReason, inventoryItems, adjustments,
                  refreshing, isReasonOpen, pendingAdjustment, isThresholdOpen, thresholds >>

\* saveThresholds after apiClient.inventory.updateItem rejected: the catch
I_UpdateRejected(k) ==
  /\ page = "inventory"
  /\ k \in 1..Len(requests)
  /\ requests[k].api = "updateItem"
  /\ requests' = Remove(requests, k)
  /\ error' = << "Failed to update thresholds" >>
  /\ lastOp' = "updateItem.rejected"
  /\ UNCHANGED << page, authVars, frame, cashierVars, serverStock, adjustmentReason, inventoryItems, loading,
                  adjustments, refreshing, isReasonOpen, pendingAdjustment, isThresholdOpen,
                  thresholds >>

(***************************************************************************)
(* The backend behind apiClient.inventory, for the runs that follow the    *)
(* stock it records.  It receives productId, outletId, adjustedQuantity,   *)
(* reason, adjustedBy and type: a delta, never the target quantity.        *)
(***************************************************************************)
\* what apiClient.inventory.getItems returns from the recorded stock
ServerItems ==
  [ i \in 1..1 |-> [ productId |-> "p", currentStock |-> serverStock ] ]

\* fetchInventoryData resolving with the items of the backend
I_FetchFromBackend(k) ==
  /\ serverStock # <<>>
  /\ I_FetchResolved(k, ServerItems)

\* a sale or an adjustment of another session changes the recorded stock
B_OtherSession(change) ==
  /\ page = "inventory"
  /\ serverStock # <<>>
  /\ serverStock[1] + change \in 0..MaxTarget
  /\ serverStock' = << serverStock[1] + change >>
  /\ UNCHANGED << page, authVars, frame, lastOp, cashierVars, adjustmentReason, inventoryItems, loading,
                  error, adjustments, refreshing, isReasonOpen, pendingAdjustment,
                  isThresholdOpen, thresholds, requests >>

(***************************************************************************)
(* dataValidations.validateInventoryAdjustment                             *)
(* quantity is <<>> when it is not a number; reason is <<>> when undefined *)
(***************************************************************************)
QuantityInputs == { <<>>, <<-1>>, <<0>>, <<2>> }
ReasonInputs == { <<>> } \cup { << text >> : text \in ReasonTexts }

validateInventoryAdjustment(quantity, reason) ==
  LET quantityErrors ==
        IF quantity = <<>> THEN << "Quantity must be a number" >> ELSE <<>>
      reasonErrors ==
        IF (IF reason = <<>> THEN TRUE ELSE Trim(reason[1]) = <<>>)
        THEN << "Reason is required" >> ELSE <<>>
      errors == quantityErrors \o reasonErrors
  IN  [ isValid |-> errors = <<>>, errors |-> errors ]

V_ValidateInventoryAdjustment(quantity, reason) ==
  /\ page = "pack"
  /\ NoCallRunning
  /\ frame' = [ fn |-> "validateInventoryAdjustment",
                quantity |-> quantity, reason |-> reason,
                result |-> validateInventoryAdjustment(quantity, reason) ]
  /\ lastOp' = "validateInventoryAdjustment"
  /\ UNCHANGED << page, authVars, cashierVars, inventoryVars >>

(***************************************************************************)
(* dataValidations.validateSaleItem and validateSale                       *)
(* A field of a Partial<SaleItem> is <<>> when absent, << value >> else.   *)
(***************************************************************************)
SaleItemInputs ==
  { [ productId |-> <<"a">>, quantity |-> <<1>>, unitPrice |-> <<10>>, discount |-> <<0>> ],
    [ productId |-> <<"a">>, quantity |-> <<0>>, unitPrice |-> <<10>>, discount |-> <<>> ],
    [ productId |-> <<>>,    quantity |-> <<2>>, unitPrice |-> <<>>,   discount |-> <<-1>> ] }

\* sale.items: undefined, or a list of up to two items
SaleItemsInputs == { <<>> } \cup { << items >> : items \in SeqsUpTo(SaleItemInputs, 2) }

validateSaleItem(item) ==
  LET productErrors ==
        IF item.productId = <<>> THEN << "Product is required" >> ELSE <<>>
      quantityErrors ==
        IF (IF item.quantity = <<>> THEN TRUE ELSE item.quantity[1] <= 0)
        THEN << "Quantity must be a positive number" >> ELSE <<>>
      priceErrors ==
        IF (IF item.unitPrice = <<>> THEN TRUE ELSE item.unitPrice[1] <= 0)
        THEN << "Unit price must be a positive number" >> ELSE <<>>
      discountErrors ==
        IF (IF item.discount = <<>> THEN FALSE ELSE item.discount[1] < 0)
        THEN << "Discount cannot be negative" >> ELSE <<>>
      errors == productErrors \o quantityErrors \o priceErrors \o discountErrors
  IN  [ isValid |-> errors = <<>>, errors |-> errors ]

\* the messages pushed by the forEach, one per invalid item
RECURSIVE ItemMessages(_, _)
ItemMessages(items, index) ==
  IF index > Len(items) THEN <<>>
  ELSE LET itemValidation == validateSaleItem(items[index])
       IN  (IF itemValidation.isValid THEN <<>>
            ELSE << [ item |-> index, errors |-> itemValidation.errors ] >>)
           \o ItemMessages(items, index + 1)

\* sale.items undefined passes the first test and then sale.items.forEach
\* throws a TypeError
validateSale(items) ==
  IF items = <<>> THEN [ threw |-> TRUE ]
  ELSE LET emptyErrors ==
             IF items[1] = <<>> THEN << "At least one item is required" >> ELSE <<>>
           errors == emptyErrors \o ItemMessages(items[1], 1)
       IN  [ threw |-> FALSE, isValid |-> errors = <<>>, errors |-> errors ]

V_ValidateSale(items) ==
  /\ page = "pack"
  /\ NoCallRunning
  /\ frame' = [ fn |-> "validateSale", items |-> items, result |-> validateSale(items) ]
  /\ lastOp' = "validateSale"
  /\ UNCHANGED << page, authVars, cashierVars, inventoryVars >>

(***************************************************************************)
(* AuthProvider and withAuth.  The user is reduced to its role; a full     *)
(* page load (window.location.href) is outside the model.  The functions   *)
(* of the context can be called by any component, wrapped or not.          *)
(***************************************************************************)
Roles == { "admin", "manager", "cashier" }

\* roleHierarchy of hasRole
roleHierarchy == [ admin |-> 4, manager |-> 3, cashier |-> 1 ]

\* rolePermissions of hasPermission
rolePermissions ==
  [ admin   |-> { "users.create", "users.read", "users.update", "users.delete",
                  "outlets.create", "outlets.read", "outlets.update", "outlets.delete",
                  "products.create", "products.read", "products.update", "products.delete",
                  "sales.create", "sales.read", "sales.update", "sales.delete",
                  "inventory.create", "inventory.read", "inventory.update",
                  "inventory.delete", "reports.read", "reports.inventory",
                  "system.manage", "audit.read" },
    manager |-> { "users.read", "users.update",
                  "products.create", "products.read", "products.update", "products.delete",
                  "sales.create", "sales.read", "sales.update",
                  "inventory.create", "inventory.read", "inventory.update",
                  "inventory.delete", "reports.read", "reports.inventory",
                  "shifts.manage" },
    cashier |-> { "products.read", "sales.create", "sales.read", "inventory.read",
                  "shifts.manage" } ]

\* the permission names the code knows, and one it does not
Permissions == UNION { rolePermissions[role] : role \in Roles } \cup { "stock.count" }

hasRole(role) ==
  IF auth.user = <<>> THEN FALSE
  ELSE roleHierarchy[auth.user[1]] >= roleHierarchy[role]

hasPermission(permission) ==
  IF auth.user = <<>> THEN FALSE
  ELSE permission \in rolePermissions[auth.user[1]]

\* isAuthenticated without the validation flag
isAuthenticatedUnvalidated == auth.user # <<>> /\ auth.token # <<>>

\* the context value isAuthenticated: !!user && !!token && isValidated
isAuthenticated == auth.user # <<>> /\ auth.token # <<>> /\ auth.isValidated

\* what AuthenticatedComponent returns for withAuth(Component, requiredRole,
\* requiredPermission); an argument left out is <<>>
AuthenticatedComponent(requiredRole, requiredPermission) ==
  IF auth.isLoading THEN "loading"
  ELSE IF auth.error # <<>> /\ ~isAuthenticated THEN "error"
  ELSE IF ~isAuthenticated THEN "redirect"
  ELSE IF requiredRole # <<>> /\ ~hasRole(requiredRole[1]) THEN "denied.role"
  ELSE IF requiredPermission # <<>> /\ ~hasPermission(requiredPermission[1])
       THEN "denied.permission"
  ELSE "component"

\* the errors the API client rejects with: statusCode, code, response.status
\* and message of ApiError
ErrorInputs ==
  { [ statusCode |-> <<401>>, code |-> "401", responseStatus |-> <<>>, message |-> "Unauthorized" ],
    [ statusCode |-> <<403>>, code |-> "403", responseStatus |-> <<>>, message |-> "Forbidden" ],
    [ statusCode |-> <<500>>, code |-> "500", responseStatus |-> <<>>, message |-> "Internal" ],
    [ statusCode |-> <<400>>, code |-> "400", responseStatus |-> <<>>, message |-> "Bad request" ],
    [ statusCode |-> <<>>, code |-> "NETWORK_ERROR", responseStatus |-> <<>>,
      message |-> "Network Error" ] }

\* error.statusCode || error.response?.status
StatusOf(err) == IF err.statusCode # <<>> THEN err.statusCode ELSE err.responseStatus

\* the message and the shouldClearAuth flag handleAuthError computes
AuthErrorOutcome(err) ==
  LET status == StatusOf(err)
  IN  IF status # <<>>
      THEN CASE status[1] = 401 ->
                  [ message |-> "Your session has expired. Please log in again.",
                    shouldClearAuth |-> TRUE ]
             [] status[1] = 403 ->
                  [ message |-> "Access denied. You don't have permission to perform this action.",
                    shouldClearAuth |-> TRUE ]
             [] status[1] = 404 ->
                  [ message |-> "Service not found. Please try again later.",
                    shouldClearAuth |-> FALSE ]
             [] status[1] = 429 ->
                  [ message |-> "Too many requests. Please wait and try again.",
                    shouldClearAuth |-> FALSE ]
             [] status[1] \in { 500, 502, 503, 504 } ->
                  [ message |-> "Server error. Please try again later.",
                    shouldClearAuth |-> FALSE ]
             [] OTHER ->
                  [ message |-> IF err.message # "" THEN err.message
                                ELSE "An unexpected error occurred. Please try again.",
                    shouldClearAuth |-> status[1] \in { 401, 403 } ]
      ELSE IF err.code = "NETWORK_ERROR" \/ err.message = "Network Error"
      THEN [ message |-> "Network connection failed. Please check your internet connection and try again.",
             shouldClearAuth |-> FALSE ]
      ELSE IF err.message # ""
      THEN [ message |-> err.message, shouldClearAuth |-> FALSE ]
      ELSE [ message |-> "An authentication error occurred", shouldClearAuth |-> FALSE ]

\* the state setters of clearAuthState: setUser(null), setToken(null),
\* setError(null)
ClearAuthState(state) ==
  [ state EXCEPT !.user = <<>>, !.token = <<>>, !.error = <<>> ]

\* the state after handleAuthError(error, context): setError(errorMessage),
\* then clearAuthState() when shouldClearAuth
HandleAuthError(state, err) ==
  LET shown == [ state EXCEPT !.error = << AuthErrorOutcome(err).message >> ]
  IN  IF AuthErrorOutcome(err).shouldClearAuth THEN ClearAuthState(shown) ELSE shown

\* localStorage after handleAuthError
StorageAfterError(storage, err) ==
  IF AuthErrorOutcome(err).shouldClearAuth THEN EmptyStorage ELSE storage

\* the test of validateStoredAuth and refreshToken for a rejected token
CodeIsAuthFailure(err) == err.code \in { "401", "403" }
ProfileIsAuthFailure(err) ==
  CodeIsAuthFailure(err) \/ err.responseStatus \in { <<401>>, <<403>> }

\* the finally block of initializeAuth
InitFinallyState(state) == [ state EXCEPT !.isLoading = FALSE, !.isValidated = TRUE ]
InitFinallyRefs(refs) ==
  [ refs EXCEPT !.isInitializing = FALSE, !.initializationAttempted = TRUE ]

AuthCall(api, from) == [ api |-> api, from |-> from ]

\* what localStorage can hold when the provider mounts
StoredSessions ==
  { EmptyStorage } \cup { [ auth_token |-> <<"t">>, user |-> <<role>> ] : role \in Roles }

InitAuth ==
  /\ page = "auth"
  /\ frame = NoFrame
  /\ lastOp = "init"
  /\ CashierUnmounted
  /\ InventoryUnmounted
  /\ auth = AuthInitialState
  /\ localStorage \in StoredSessions
  /\ authRefs = AuthInitialRefs
  /\ authCalls = <<>>

\* initializeAuth up to its first await, called by the mount effect
\* ("useEffect", only while initializationAttempted is false) or by
\* retryInitialization, which resets retryCount and initializationAttempted
\* first.  With a stored token and user validateStoredAuth runs up to
\* `await apiClient.auth.getProfile()`; without them the function finishes.
A_InitializeAuth(caller) ==
  /\ page = "auth"
  /\ caller = "useEffect" => ~authRefs.initializationAttempted /\ ~authRefs.isInitializing
  /\ LET refs == IF caller = "retryInitialization"
                 THEN [ authRefs EXCEPT !.retryCount = 0, !.initializationAttempted = FALSE ]
                 ELSE authRefs
         started == [ auth EXCEPT !.isLoading = TRUE, !.error = <<>> ]
     IN  IF refs.isInitializing
         THEN /\ authRefs' = refs
              /\ UNCHANGED << auth, localStorage, authCalls >>
         ELSE IF localStorage.auth_token # <<>> /\ localStorage.user # <<>>
         THEN /\ Len(authCalls) < MaxAuthCalls
              /\ auth' = [ started EXCEPT !.token = localStorage.auth_token,
                                          !.user = localStorage.user ]
              /\ authRefs' = [ refs EXCEPT !.isInitializing = TRUE ]
              /\ authCalls' = Append(authCalls, AuthCall("getProfile", "validateStoredAuth"))
              /\ UNCHANGED localStorage
         ELSE /\ auth' = InitFinallyState(ClearAuthState(started))
              /\ localStorage' = EmptyStorage
              /\ authRefs' = InitFinallyRefs(refs)
              /\ UNCHANGED authCalls
  /\ lastOp' = "initializeAuth"
  /\ UNCHANGED << page, frame, cashierVars, inventoryVars >>

\* validateStoredAuth after getProfile resolved, and the rest of
\* initializeAuth
A_ProfileValidated(k, role) ==
  /\ page = "auth"
  /\ k \in 1..Len(authCalls)
  /\ authCalls[k] = AuthCall("getProfile", "validateStoredAuth")
  /\ auth' = InitFinallyState([ auth EXCEPT !.user = <<role>> ])
  /\ localStorage' = [ localStorage EXCEPT !.user = <<role>> ]
  /\ authRefs' = InitFinallyRefs([ authRefs EXCEPT !.retryCount = 0 ])
  /\ authCalls' = Remove(authCalls, k)
  /\ lastOp' = "validateStoredAuth.resolved"
  /\ UNCHANGED << page, frame, cashierVars, inventoryVars >>

\* validateStoredAuth after getProfile rejected: a 401 or 403 clears the
\* stored session and initializeAuth waits before its retry; any other error
\* keeps the stored session
A_ProfileRejected(k, err) ==
  /\ page = "auth"
  /\ k \in 1..Len(authCalls)
  /\ authCalls[k] = AuthCall("getProfile", "validateStoredAuth")
  /\ IF ProfileIsAuthFailure(err)
     THEN /\ localStorage' = EmptyStorage
          /\ IF authRefs.retryCount < maxRetries
             THEN /\ auth' = [ ClearAuthState(auth) EXCEPT !.isValidated = TRUE ]
                  /\ authRefs' = [ authRefs EXCEPT !.retryCount = @ + 1 ]
                  /\ authCalls' = Append(Remove(authCalls, k),
                                         AuthCall("setTimeout", "initializeAuth"))
             ELSE /\ auth' = InitFinallyState(ClearAuthState(auth))
                  /\ authRefs' = InitFinallyRefs(authRefs)
                  /\ authCalls' = Remove(authCalls, k)
     ELSE /\ auth' = InitFinallyState(auth)
          /\ authRefs' = InitFinallyRefs([ authRefs EXCEPT !.retryCount = 0 ])
          /\ authCalls' = Remove(authCalls, k)
          /\ UNCHANGED localStorage
  /\ lastOp' = "validateStoredAuth.rejected"
  /\ UNCHANGED << page, frame, cashierVars, inventoryVars >>

\* the wait before the retry is over: the nested initializeAuth returns at
\* once (isInitializing is still true) and the finally block runs
A_RetryDelayOver(k) ==
  /\ page = "auth"
  /\ k \in 1..Len(authCalls)
  /\ authCalls[k] = AuthCall("setTimeout", "initializeAuth")
  /\ auth' = InitFinallyState(auth)
  /\ authRefs' = InitFinallyRefs(authRefs)
  /\ authCalls' = Remove(authCalls, k)
  /\ lastOp' = "initializeAuth.retried"
  /\ UNCHANGED << page, frame, cashierVars, inventoryVars, localStorage >>

\* login up to `await apiClient.auth.login(credentials)`
A_Login ==
  /\ page = "auth"
  /\ Len(authCalls) < MaxAuthCalls
  /\ auth' = [ auth EXCEPT !.isLoading = TRUE, !.error = <<>> ]
  /\ authCalls' = Append(authCalls, AuthCall("login", "login"))
  /\ lastOp' = "login"
  /\ UNCHANGED << page, frame, cashierVars, inventoryVars, localStorage, authRefs >>

\* login after the call resolved
A_LoginResolved(k, role) ==
  /\ page = "auth"
  /\ k \in 1..Len(authCalls)
  /\ authCalls[k] = AuthCall("login", "login")
  /\ auth' = [ auth EXCEPT !.token = <<"t">>, !.user = <<role>>, !.isLoading = FALSE ]
  /\ localStorage' = [ auth_token |-> <<"t">>, user |-> <<role>> ]
  /\ authRefs' = [ authRefs EXCEPT !.retryCount = 0 ]
  /\ authCalls' = Remove(authCalls, k)
  /\ lastOp' = "login.resolved"
  /\ UNCHANGED << page, frame, cashierVars, inventoryVars >>

\* login after the call rejected: handleAuthError(error, 'login'), then
\* clearAuthState(), then the finally block
A_LoginRejected(k, err) ==
  /\ page = "auth"
  /\ k \in 1..Len(authCalls)
  /\ authCalls[k] = AuthCall("login", "login")
  /\ auth' = [ ClearAuthState(HandleAuthError(auth, err)) EXCEPT !.isLoading = FALSE ]
  /\ localStorage' = EmptyStorage
  /\ authCalls' = Remove(authCalls, k)
  /\ lastOp' = "login.rejected"
  /\ UNCHANGED << page, frame, cashierVars, inventoryVars, authRefs >>

\* logout up to `await Promise.allSettled(logoutPromises)`; the session timer
\* calls it too
A_Logout ==
  /\ page = "auth"
  /\ Len(authCalls) < MaxAuthCalls
  /\ auth' = [ auth EXCEPT !.isLoading = TRUE ]
  /\ authCalls' = Append(authCalls, AuthCall("logout", "logout"))
  /\ lastOp' = "logout"
  /\ UNCHANGED << page, frame, cashierVars, inventoryVars, localStorage, authRefs >>

\* logout after the calls settled: the finally block
A_LogoutSettled(k) ==
  /\ page = "auth"
  /\ k \in 1..Len(authCalls)
  /\ authCalls[k] = AuthCall("logout", "logout")
  /\ auth' = [ ClearAuthState(auth) EXCEPT !.isLoading = FALSE ]
  /\ localStorage' = EmptyStorage
  /\ authCalls' = Remove(authCalls, k)
  /\ lastOp' = "logout.settled"
  /\ UNCHANGED << page, frame, cashierVars, inventoryVars, authRefs >>

\* refreshToken up to `await apiClient.auth.getProfile()`
A_RefreshToken ==
  /\ page = "auth"
  /\ Len(authCalls) < MaxAuthCalls
  /\ auth' = [ auth EXCEPT !.error = <<>> ]
  /\ authCalls' = Append(authCalls, AuthCall("getProfile", "refreshToken"))
  /\ lastOp' = "refreshToken"
  /\ UNCHANGED << page, frame, cashierVars, inventoryVars, localStorage, authRefs >>

\* refreshToken after getProfile resolved
A_RefreshResolved(k, role) ==
  /\ page = "auth"
  /\ k \in 1..Len(authCalls)
  /\ authCalls[k] = AuthCall("getProfile", "refreshToken")
  /\ auth' = [ auth EXCEPT !.user = <<role>> ]
  /\ localStorage' = [ localStorage EXCEPT !.user = <<role>> ]
  /\ authCalls' = Remove(authCalls, k)
  /\ lastOp' = "refreshToken.resolved"
  /\ UNCHANGED << page, frame, cashierVars, inventoryVars, authRefs >>

\* refreshToken after getProfile rejected: handleAuthError(error, 'token
\* refresh'), then clearAuthState() for the codes '401' and '403'
A_RefreshRejected(k, err) ==
  /\ page = "auth"
  /\ k \in 1..Len(authCalls)
  /\ authCalls[k] = AuthCall("getProfile", "refreshToken")
  /\ auth' = IF CodeIsAuthFailure(err)
             THEN ClearAuthState(HandleAuthError(auth, err))
             ELSE HandleAuthError(auth, err)
  /\ localStorage' = IF CodeIsAuthFailure(err)
                     THEN EmptyStorage
                     ELSE StorageAfterError(localStorage, err)
  /\ authCalls' = Remove(authCalls, k)
  /\ lastOp' = "refreshToken.rejected"
  /\ UNCHANGED << page, frame, cashierVars, inventoryVars, authRefs >>

\* revokeAllSessions up to its await
A_RevokeAllSessions ==
  /\ page = "auth"
  /\ Len(authCalls) < MaxAuthCalls
  /\ auth' = [ auth EXCEPT !.isLoading = TRUE ]
  /\ authCalls' = Append(authCalls, AuthCall("revokeAllSessions", "revokeAllSessions"))
  /\ lastOp' = "revokeAllSessions"
  /\ UNCHANGED << page, frame, cashierVars, inventoryVars, localStorage, authRefs >>

\* revokeAllSessions after the call resolved: the finally block
A_RevokeResolved(k) ==
  /\ page = "auth"
  /\ k \in 1..Len(authCalls)
  /\ authCalls[k] = AuthCall("revokeAllSessions", "revokeAllSessions")
  /\ auth' = [ ClearAuthState(auth) EXCEPT !.isLoading = FALSE ]
  /\ localStorage' = EmptyStorage
  /\ authCalls' = Remove(authCalls, k)
  /\ lastOp' = "revokeAllSessions.resolved"
  /\ UNCHANGED << page, frame, cashierVars, inventoryVars, authRefs >>

\* revokeAllSessions after the call rejected: handleAuthError, then the
\* finally block
A_RevokeRejected(k, err) ==
  /\ page = "auth"
  /\ k \in 1..Len(authCalls)
  /\ authCalls[k] = AuthCall("revokeAllSessions", "revokeAllSessions")
  /\ auth' = [ ClearAuthState(HandleAuthError(auth, err)) EXCEPT !.isLoading = FALSE ]
  /\ localStorage' = EmptyStorage
  /\ authCalls' = Remove(authCalls, k)
  /\ lastOp' = "revokeAllSessions.rejected"
  /\ UNCHANGED << page, frame, cashierVars, inventoryVars, authRefs >>

\* updateUser
A_UpdateUser(role) ==
  /\ page = "auth"
  /\ auth' = [ auth EXCEPT !.user = <<role>>, !.error = <<>> ]
  /\ localStorage' = [ localStorage EXCEPT !.user = <<role>> ]
  /\ lastOp' = "updateUser"
  /\ UNCHANGED << page, frame, cashierVars, inventoryVars, authRefs, authCalls >>

\* clearError
A_ClearError ==
  /\ page = "auth"
  /\ auth' = [ auth EXCEPT !.error = <<>> ]
  /\ lastOp' = "clearError"
  /\ UNCHANGED << page, frame, cashierVars, inventoryVars, localStorage, authRefs, authCalls >>

(***************************************************************************)
(* Pack unit: the functions are called one at a time                       *)
(***************************************************************************)
InitPack ==
  /\ page = "pack"
  /\ frame = NoFrame
  /\ lastOp = "init"
  /\ CashierUnmounted
  /\ InventoryUnmounted
  /\ AuthUnmounted

\* lines 190-193: copy, sort, initialise the accumulators
CalcCall(totalUnits, packVariants, product) ==
  /\ page = "pack"
  /\ NoCallRunning
  /\ frame' = [ fn |-> "calculatePackInventory", pc |-> "loop",
                totalUnits |-> totalUnits, packVariants |-> packVariants,
                product |-> product,
                sortedVariants |-> SortBySizeDesc(packVariants), i |-> 1,
                acc |-> StartAcc(totalUnits) ]
  /\ lastOp' = "calculatePackInventory"
  /\ UNCHANGED << page, authVars, inventoryVars, cashierVars >>

\* lines 196-206: one iteration
CalcIter ==
  /\ page = "pack"
  /\ frame.fn = "calculatePackInventory" /\ frame.pc = "loop"
  /\ frame.i <= Len(frame.sortedVariants)
  /\ frame' = [ frame EXCEPT !.acc = LoopBody(frame.acc, frame.sortedVariants[frame.i]),
                             !.i = frame.i + 1 ]
  /\ lastOp' = "calculatePackInventory.iteration"
  /\ UNCHANGED << page, authVars, inventoryVars, cashierVars >>

\* lines 208-215: loose units and return
CalcReturn ==
  /\ page = "pack"
  /\ frame.fn = "calculatePackInventory" /\ frame.pc = "loop"
  /\ frame.i > Len(frame.sortedVariants)
  /\ frame' = [ fn |-> "calculatePackInventory", pc |-> "returned",
                totalUnits |-> frame.totalUnits, packVariants |-> frame.packVariants,
                product |-> frame.product,
                sortedVariants |-> frame.sortedVariants, i |-> frame.i,
                acc |-> frame.acc,
                result |-> FinishInventory(frame.acc, frame.sortedVariants) ]
  /\ lastOp' = "calculatePackInventory.return"
  /\ UNCHANGED << page, authVars, inventoryVars, cashierVars >>

InfoCall(saleType, packVariant, packQuantity, unitQuantity) ==
  /\ page = "pack"
  /\ NoCallRunning
  /\ frame' = [ fn |-> "createPackSaleInfo",
                saleType |-> saleType, packVariant |-> packVariant,
                packQuantity |-> packQuantity, unitQuantity |-> unitQuantity,
                result |-> createPackSaleInfo(saleType, packVariant, packQuantity, unitQuantity) ]
  /\ lastOp' = "createPackSaleInfo"
  /\ UNCHANGED << page, authVars, inventoryVars, cashierVars >>

\* the scanned line's packInfo (ProductSearch.handleBarcodeScanned)
ScanInfo ==
  /\ page = "pack"
  /\ NoCallRunning
  /\ frame' = [ fn |-> "handleBarcodeScanned",
                result |-> [ threw |-> FALSE, value |-> BarcodePackInfo ] ]
  /\ lastOp' = "handleBarcodeScanned.packInfo"
  /\ UNCHANGED << page, authVars, inventoryVars, cashierVars >>

vars == << page, frame, lastOp, cashierVars, inventoryVars, authVars >>

NextPack ==
  \/ \E totalUnits \in 0..MaxUnits, packVariants \in VariantLists, product \in PackProducts :
        CalcCall(totalUnits, packVariants, product)
  \/ CalcIter
  \/ CalcReturn
  \/ \E saleType \in { "unit", "pack" }, packVariant \in VariantArgs,
        packQuantity \in QuantityArgs, unitQuantity \in QuantityArgs :
        InfoCall(saleType, packVariant, packQuantity, unitQuantity)
  \/ ScanInfo

SpecPack == InitPack /\ [][NextPack]_vars

NextDesktop ==
  \/ \E product \in Catalog : D_AddToCart(product)
  \/ \E product \in Catalog : D_BarcodeScanned(product)
  \/ \E id \in ProductIds, quantity \in 0..MaxQty : D_UpdateQuantity(id, quantity)
  \/ \E id \in ProductIds : D_RemoveFromCart(id)
  \/ D_ClearCart
  \/ D_ProceedToPayment
  \/ D_Back
  \/ \E method \in PaymentMethods : D_SetPaymentMethod(method)
  \/ \E amount \in CashInputs : D_SetCashReceived(amount)
  \/ D_HandlePayment
  \/ \E k \in 1..MaxInFlight : D_SaleResolved(k)
  \/ \E k \in 1..MaxInFlight : D_SaleRejected(k)
  \/ D_TimerFires
  \/ D_PrintReceipt
  \/ D_Retry

SpecDesktop == InitDesktop /\ [][NextDesktop]_vars

\* the desktop checkout, and validateSale called on its own (no component
\* of the repository calls it)
InitCheckout == InitDesktop \/ InitPack

NextCheckout ==
  \/ NextDesktop
  \/ \E items \in SaleItemsInputs : V_ValidateSale(items)

SpecCheckout == InitCheckout /\ [][NextCheckout]_vars

\* the mobile page with its checkout, products added by the add buttons
NextMobile ==
  \/ \E product \in Catalog : M_AddToCart(product)
  \/ \E id \in ProductIds, quantity \in 0..MaxQty : M_UpdateQuantity(id, quantity)
  \/ \E id \in ProductIds : M_RemoveItem(id)
  \/ M_ClearCart
  \/ \E tab \in { "products", "cart", "customer" } : M_SetActiveTab(tab)
  \/ M_ProceedToPayment
  \/ M_Back
  \/ \E method \in MobilePaymentMethods : M_SetPaymentMethod(method)
  \/ \E amount \in CashInputs : M_SetCashReceived(amount)
  \/ \E amount \in AmountInputs : M_SetCardAmount(amount)
  \/ \E amount \in AmountInputs : M_SetMobileAmount(amount)
  \/ \E number \in MobileNumbers : M_SetMobileNumber(number)
  \/ M_HandlePayment
  \/ \E k \in 1..MaxInFlight : M_PaymentComplete(k)
  \/ M_NewSale

SpecMobile == InitMobile /\ [][NextMobile]_vars

\* one checkout of the mobile page, up to its receipt: lines are added from
\* the products tab, the payment form is filled in, left by Back or paid
NextMobilePayment ==
  \/ \E product \in Catalog : M_AddToCart(product)
  \/ \E tab \in { "products", "cart" } : M_SetActiveTab(tab)
  \/ M_ProceedToPayment
  \/ M_Back
  \/ \E method \in MobilePaymentMethods : M_SetPaymentMethod(method)
  \/ \E amount \in CashInputs : M_SetCashReceived(amount)
  \/ \E amount \in AmountInputs : M_SetCardAmount(amount)
  \/ \E amount \in AmountInputs : M_SetMobileAmount(amount)
  \/ M_HandlePayment
  \/ \E k \in 1..MaxInFlight : M_PaymentComplete(k)

SpecMobilePayment == InitMobile /\ [][NextMobilePayment]_vars

\* The cart handlers of the two pages (a session runs one of them): add
\* buttons and barcode scans, updateQuantity, removeFromCart / removeItem,
\* clearCart, and on the mobile page the tabs that show them.
InitCart == InitDesktop \/ InitMobile

NextCart ==
  \/ \E product \in Catalog : D_AddToCart(product)
  \/ \E product \in Catalog : D_BarcodeScanned(product)
  \/ \E id \in ProductIds, quantity \in -1..MaxQty : D_UpdateQuantity(id, quantity)
  \/ \E id \in ProductIds : D_RemoveFromCart(id)
  \/ D_ClearCart
  \/ \E product \in Catalog : M_AddToCart(product)
  \/ \E product \in Catalog : M_ScanStart(product)
  \/ \E k \in 1..MaxScans : M_ScanFound(k)
  \/ \E k \in 1..MaxScans : M_ScanNotFound(k)
  \/ \E id \in ProductIds, quantity \in -1..MaxQty : M_UpdateQuantity(id, quantity)
  \/ \E id \in ProductIds : M_RemoveItem(id)
  \/ M_ClearCart
  \/ \E tab \in { "products", "cart", "customer" } : M_SetActiveTab(tab)

SpecCart == InitCart /\ [][NextCart]_vars

\* the inventory page, and the validation of an adjustment called on its own
InitInventoryUnits == InitInventory \/ InitPack

NextInventory ==
  \/ \E k \in 1..MaxRequests, itemsData \in ItemLists : I_FetchResolved(k, itemsData)
  \/ \E k \in 1..MaxRequests : I_FetchRejected(k)
  \/ I_Refresh
  \/ \E i \in 1..1 : I_Minus(i)
  \/ \E i \in 1..1 : I_Plus(i)
  \/ \E i \in 1..1, text \in TypedTexts : I_Typed(i, text)
  \/ \E i \in 1..1 : I_OpenReasonModal(i)
  \/ \E reason \in ReasonTexts : I_SetAdjustmentReason(reason)
  \/ I_CloseReason
  \/ I_HandleStockAdjustment
  \/ \E k \in 1..MaxRequests : I_AdjustResolved(k)
  \/ \E k \in 1..MaxRequests : I_AdjustRejected(k)
  \/ \E i \in 1..1 : I_OpenThresholdModal(i)
  \/ I_CloseThresholds
  \/ I_SaveThresholds
  \/ \E k \in 1..MaxRequests : I_UpdateResolved(k)
  \/ \E k \in 1..MaxRequests : I_UpdateRejected(k)
  \/ \E quantity \in QuantityInputs, reason \in ReasonInputs :
        V_ValidateInventoryAdjustment(quantity, reason)

SpecInventory == InitInventoryUnits /\ [][NextInventory]_vars

\* The inventory page against a backend that records the stock and serves
\* other sessions: fetches, quantity edits, the reason dialog, the adjust
\* call and its answer.
NextStock ==
  \/ \E k \in 1..MaxRequests : I_FetchFromBackend(k)
  \/ I_Refresh
  \/ \E i \in 1..1 : I_Minus(i)
  \/ \E i \in 1..1 : I_Plus(i)
  \/ \E i \in 1..1 : I_OpenReasonModal(i)
  \/ \E reason \in ReasonTexts : I_SetAdjustmentReason(reason)
  \/ I_CloseReason
  \/ I_HandleStockAdjustment
  \/ \E k \in 1..MaxRequests : I_AdjustResolved(k)
  \/ \E k \in 1..MaxRequests : I_AdjustRejected(k)
  \/ \E change \in { -1, 1 } : B_OtherSession(change)

SpecStock == InitStock /\ [][NextStock]_vars

\* The AuthProvider: initialization, login, logout, token refresh, session
\* revocation, updateUser and clearError.
NextAuth ==
  \/ \E caller \in { "useEffect", "retryInitialization" } : A_InitializeAuth(caller)
  \/ \E k \in 1..MaxAuthCalls, role \in Roles : A_ProfileValidated(k, role)
  \/ \E k \in 1..MaxAuthCalls, err \in ErrorInputs : A_ProfileRejected(k, err)
  \/ \E k \in 1..MaxAuthCalls : A_RetryDelayOver(k)
  \/ A_Login
  \/ \E k \in 1..MaxAuthCalls, role \in Roles : A_LoginResolved(k, role)
  \/ \E k \in 1..MaxAuthCalls, err \in ErrorInputs : A_LoginRejected(k, err)
  \/ A_Logout
  \/ \E k \in 1..MaxAuthCalls : A_LogoutSettled(k)
  \/ A_RefreshToken
  \/ \E k \in 1..MaxAuthCalls, role \in Roles : A_RefreshResolved(k, role)
  \/ \E k \in 1..MaxAuthCalls, err \in ErrorInputs : A_RefreshRejected(k, err)
  \/ A_RevokeAllSessions
  \/ \E k \in 1..MaxAuthCalls : A_RevokeResolved(k)
  \/ \E k \in 1..MaxAuthCalls, err \in ErrorInputs : A_RevokeRejected(k, err)
  \/ \E role \in Roles : A_UpdateUser(role)
  \/ A_ClearError

SpecAuth == InitAuth /\ [][NextAuth]_vars

(***************************************************************************)
(* Properties of the pack utilities (checked under SpecPack)               *)
(***************************************************************************)
RECURSIVE UnitsInPacks(_)
UnitsInPacks(packBreakdown) ==
  IF packBreakdown = <<>> THEN 0
  ELSE Head(packBreakdown).availablePacks * Head(packBreakdown).variant.packSize
       + UnitsInPacks(Tail(packBreakdown))

RECURSIVE ValueOfPacks(_)
ValueOfPacks(packBreakdown) ==
  IF packBreakdown = <<>> THEN 0
  ELSE Head(packBreakdown).availablePacks * Head(packBreakdown).variant.packPrice
       + ValueOfPacks(Tail(packBreakdown))

InCalc == frame.fn = "calculatePackInventory"
CalcReturned == IF InCalc THEN frame.pc = "returned" ELSE FALSE

\* C1: calculatePackInventory conserves units.  With every packSize >= 1 and
\* totalUnits >= 0, the units held in the recorded packs plus the remaining
\* units equal totalUnits before the loop, after every iteration of it, and
\* in the returned breakdown (with looseUnits as the remainder).
C1_Conservation ==
  InCalc =>
    /\ UnitsInPacks(frame.acc.packBreakdown) + frame.acc.remainingUnits = frame.totalUnits
    /\ frame.acc.remainingUnits >= 0
    /\ CalcReturned =>
         UnitsInPacks(frame.result.packBreakdown) + frame.result.looseUnits = frame.totalUnits

\* a decomposition with packs and loose units has been returned
C1_Witness ==
  /\ CalcReturned
  /\ Len(frame.result.packBreakdown) >= 1
  /\ frame.result.looseUnits >= 1
  /\ lastOp = "calculatePackInventory.return"

InfoBuilt ==
  IF frame.fn \in { "createPackSaleInfo", "handleBarcodeScanned" }
  THEN ~frame.result.threw ELSE FALSE

\* a quantity field that is present and not 0
NonZero(info, field) == IF field \in DOMAIN info THEN info[field] # 0 ELSE FALSE

\* C8: every SalePackInfo the code constructs has exactly one of unitQuantity
\* and packQuantity non-zero, the one its saleType names, and its
\* effectiveUnitCount is unitQuantity for a unit sale and
\* packQuantity * packVariant.packSize for a pack sale.
C8_SaleInfoExclusive ==
  InfoBuilt =>
    LET info == frame.result.value
    IN  /\ NonZero(info, "unitQuantity") # NonZero(info, "packQuantity")
        /\ info.saleType = "unit" =>
             /\ NonZero(info, "unitQuantity")
             /\ info.effectiveUnitCount = info.unitQuantity
        /\ info.saleType = "pack" =>
             /\ NonZero(info, "packQuantity")
             /\ info.packVariantId = frame.packVariant[1].id
             /\ info.effectiveUnitCount = info.packQuantity * frame.packVariant[1].packSize

\* a pack sale of two packs of a three-unit variant has been built
C8_Witness ==
  /\ InfoBuilt
  /\ frame.fn = "createPackSaleInfo"
  /\ frame.result.value.saleType = "pack"
  /\ frame.result.value.packQuantity = 2
  /\ frame.result.value.effectiveUnitCount = 6

\* C9: calculatePackInventory values loose units at the product's atomic unit
\* price: totalValue is the value of the packs plus looseUnits times the
\* product's own unit price (10 units against one 3-pack at 27 and a unit
\* price of 10 give 91).
C9_LooseUnitsAtAtomicPrice ==
  CalcReturned =>
    frame.result.totalValue =
      ValueOfPacks(frame.result.packBreakdown) + frame.result.looseUnits * frame.product.price

ActiveOnly(packVariants) == SelectSeq(packVariants, LAMBDA v : v.isActive)

\* C10: inactive pack variants have no influence on the decomposition: the
\* result for a variant list is the result for the list without its inactive
\* variants.
C10_InactiveNoInfluence ==
  CalcReturned =>
    frame.result = calculatePackInventory(frame.totalUnits, ActiveOnly(frame.packVariants))

SameVariants(s, t) ==
  /\ Len(s) = Len(t)
  /\ { s[i] : i \in 1..Len(s) } = { t[i] : i \in 1..Len(t) }

\* C11: the decomposition depends only on totalUnits and the set of variants:
\* the returned packBreakdown, looseUnits and totalValue are those of every
\* call with the same totalUnits and the same variants listed in another order.
C11_OrderIndependent ==
  CalcReturned =>
    \A other \in VariantLists :
      SameVariants(other, frame.packVariants) =>
        calculatePackInventory(frame.totalUnits, other) = frame.result

\* the first position of list that holds a variant of the largest packSize
FirstLargest(list) ==
  CHOOSE m \in 1..Len(list) :
    /\ \A j \in 1..Len(list) : list[j].packSize <= list[m].packSize
    /\ \A j \in 1..(m - 1) : list[j].packSize < list[m].packSize

WithoutPosition(list, m) == SubSeq(list, 1, m - 1) \o SubSeq(list, m + 1, Len(list))

\* the reference decomposition: take the largest remaining variant, give it
\* floor(remaining / packSize) packs, record it when that count is positive
RECURSIVE GreedyLargestFirst(_, _)
GreedyLargestFirst(remaining, list) ==
  IF list = <<>> THEN [ packBreakdown |-> <<>>, looseUnits |-> remaining ]
  ELSE LET m     == FirstLargest(list)
           count == remaining \div list[m].packSize
           rest  == GreedyLargestFirst(remaining - count * list[m].packSize,
                                       WithoutPosition(list, m))
       IN  IF count > 0
           THEN [ packBreakdown |-> << [variant |-> list[m], availablePacks |-> count] >>
                                      \o rest.packBreakdown,
                  looseUnits    |-> rest.looseUnits ]
           ELSE rest

\* C23: calculatePackInventory equals the greedy largest-first decomposition
\* over the active variants: packBreakdown and looseUnits are those of the
\* reference, packBreakdown is ordered by non-increasing packSize with
\* strictly positive counts, and with at least one active variant looseUnits
\* is smaller than the smallest active packSize.
C23_GreedyLargestFirst ==
  CalcReturned =>
    LET active    == ActiveOnly(frame.packVariants)
        reference == GreedyLargestFirst(frame.totalUnits, active)
        breakdown == frame.result.packBreakdown
    IN  /\ breakdown = reference.packBreakdown
        /\ frame.result.looseUnits = reference.looseUnits
        /\ \A i \in 1..Len(breakdown) :
             /\ breakdown[i].availablePacks > 0
             /\ breakdown[i].variant.isActive
             /\ i > 1 => breakdown[i - 1].variant.packSize >= breakdown[i].variant.packSize
        /\ \A i \in 1..Len(active) : frame.result.looseUnits < active[i].packSize

\* a decomposition into two pack sizes has been returned for a list that the
\* caller gave smallest size first
C23_Witness ==
  /\ CalcReturned
  /\ Len(frame.result.packBreakdown) = 2
  /\ Len(frame.packVariants) = 2
  /\ frame.packVariants[1].packSize < frame.packVariants[2].packSize

\* C24: createPackSaleInfo accepts only positive quantities: every call
\* either throws or returns a SalePackInfo whose active quantity and
\* effectiveUnitCount are > 0; a zero, negative or missing quantity, or a
\* pack sale without a pack variant, never yields a SalePackInfo.
C24_OnlyPositiveQuantities ==
  frame.fn = "createPackSaleInfo" =>
    IF frame.result.threw
    THEN frame.result.value = "Invalid pack sale info parameters"
    ELSE LET info == frame.result.value
         IN  /\ info.effectiveUnitCount > 0
             /\ info.saleType = "unit" => info.unitQuantity > 0
             /\ info.saleType = "pack" => info.packQuantity > 0 /\ frame.packVariant # <<>>

(***************************************************************************)
(* Properties of the cashier pages                                         *)
(***************************************************************************)
CheckoutClears == { "onPaymentComplete", "handleNewSale" }

\* C2: the checkout flow clears the cart only after a sale submission for
\* that cart has been confirmed successful: every step in which
\* onPaymentComplete -> clearCart or handleNewSale empties the cart starts in
\* a state where the sales API has accepted a sale with exactly the lines
\* being cleared.
C2_ClearOnlyAfterConfirmedSale ==
  [][ lastOp' \in CheckoutClears =>
        IF sold = <<>> THEN FALSE ELSE sold[1] = SaleItems(cartItems) ]_vars

LiveCalls(cs) == { k \in 1..Len(cs) : cs[k].live }

\* C3: a failed sale submission preserves the cart.  The step in which
\* createSale.mutate rejects leaves the cart lines, quantities and totals as
\* they were, schedules no onPaymentComplete, makes no new createSale call
\* and accepts no sale; it does not leave the payment step, and when the
\* panel that made the call is still shown it shows the error screen with the
\* payment method and cash entry kept.  Retry on that screen returns to the
\* payment form with the same cart and entries, where the cart is submitted
\* again by the operator.
C3_FailedSalePreservesCart ==
  [][ /\ lastOp' = "createSale.rejected" =>
           /\ cartItems' = cartItems
           /\ totals' = totals
           /\ timers' = timers
           /\ submitted' = submitted
           /\ sold' = sold
           /\ Len(calls') = Len(calls) - 1
           /\ showPayment' = showPayment
           /\ Cardinality(LiveCalls(calls')) < Cardinality(LiveCalls(calls)) =>
                /\ showPayment'
                /\ panel'.mounted /\ panel'.error /\ ~panel'.loading /\ ~panel'.paymentSuccess
                /\ panel'.paymentMethod = panel.paymentMethod
                /\ panel'.cashReceived = panel.cashReceived
      /\ lastOp' = "createSale.reset" =>
           /\ cartItems' = cartItems
           /\ calls' = calls /\ submitted' = submitted /\ timers' = timers
           /\ showPayment'
           /\ panel'.mounted /\ ~panel'.error /\ ~panel'.loading /\ ~panel'.paymentSuccess
           /\ panel'.paymentMethod = panel.paymentMethod
           /\ panel'.cashReceived = panel.cashReceived ]_vars

\* a submission of a cart with two lines has been rejected and the error
\* screen is shown
C3_Witness ==
  /\ page = "desktop"
  /\ lastOp = "createSale.rejected"
  /\ Len(cartItems) = 2
  /\ OnErrorScreen
  /\ calls = <<>>

ProductOf(id) == CHOOSE product \in Catalog : product.id = id

\* C4: the cart never holds more units of a product than its last-known
\* stock: every line's quantity is at most the stock recorded for the product.
C4_QuantityWithinStock ==
  \A i \in 1..Len(cartItems) : cartItems[i].quantity <= StockShown(ProductOf(cartItems[i].id))

OneLinePerProduct ==
  \A i, j \in 1..Len(cartItems) : cartItems[i].id = cartItems[j].id => i = j

\* `after` is `before` with product id added once: the line with that id has
\* one unit more and no line is appended, or, when there is no such line, one
\* line with quantity 1 is appended; the other lines are the same
AddedOnce(before, after, id) ==
  IF InCart(before, id)
  THEN /\ Len(after) = Len(before)
       /\ \A i \in 1..Len(before) :
            IF before[i].id = id
            THEN after[i] = [ before[i] EXCEPT !.quantity = before[i].quantity + 1 ]
            ELSE after[i] = before[i]
  ELSE /\ Len(after) = Len(before) + 1
       /\ SubSeq(after, 1, Len(before)) = before
       /\ after[Len(after)].id = id
       /\ after[Len(after)].quantity = 1

RECURSIVE SumPrice(_, _)
SumPrice(items, S) ==
  IF S = {} THEN 0
  ELSE LET i == CHOOSE x \in S : TRUE
       IN  items[i].price * items[i].quantity + SumPrice(items, S \ {i})

RECURSIVE SumDiscount(_, _)
SumDiscount(items, S) ==
  IF S = {} THEN 0
  ELSE LET i == CHOOSE x \in S : TRUE
       IN  items[i].discount * items[i].quantity + SumDiscount(items, S \ {i})

\* C6: totals are a fresh fold over the current lines: after any sequence of
\* cart operations the rendered subtotal is the sum of price * quantity, the
\* discount total the sum of discount * quantity over the current lines, and
\* total is subtotal minus the discount total.
C6_TotalsFreshFold ==
  /\ totals.subtotal = SumPrice(cartItems, DOMAIN cartItems)
  /\ totals.totalDiscount = SumDiscount(cartItems, DOMAIN cartItems)
  /\ totals.total = totals.subtotal - totals.totalDiscount

\* two lines, one of two units and one carrying a discount, after a line
\* was changed
C6_Witness ==
  /\ Len(cartItems) = 2
  /\ \E i \in 1..Len(cartItems) : cartItems[i].quantity = 2 /\ cartItems[i].discount > 0
  /\ totals.totalDiscount = 16
  /\ lastOp = "updateQuantity"

MixedPaid(payment) == payment.cashAmount + payment.cardAmount + payment.mobileAmount

\* C17: a mixed payment with a shortfall cannot complete: with payment method
\* 'mixed', handlePayment goes ahead and onPaymentComplete is called only if
\* cash amount + card amount + mobile amount >= total.
C17_MixedShortfallRejected ==
  /\ [][(lastOp' = "handlePayment" /\ panel.paymentMethod = "mixed") =>
          panel.cashReceived + panel.cardAmount + panel.mobileAmount >= totals.total]_vars
  /\ [][(lastOp' = "handlePaymentComplete" /\ paymentData'[1].method = "mixed") =>
          MixedPaid(paymentData'[1]) >= paymentData'[1].total]_vars

\* a mixed payment of card 10 and mobile 10 against a total of 20 has completed
C17_Witness ==
  /\ page = "mobile"
  /\ lastOp = "handlePaymentComplete"
  /\ paymentData # <<>>
  /\ paymentData[1].method = "mixed"
  /\ paymentData[1].total = 20
  /\ paymentData[1].cashAmount = 0
  /\ paymentData[1].cardAmount = 10
  /\ paymentData[1].mobileAmount = 10

\* C18: an empty cart is never submitted: no createSale.mutate call in flight
\* carries an empty item list, a Complete Payment on an empty cart starts no
\* call, and validateSale answers isValid false for an empty item list.
C18_EmptyCartNotSubmitted ==
  /\ [](\A k \in 1..Len(calls) : calls[k].saleData.items # <<>>)
  /\ [](frame.fn = "validateSale" =>
          (frame.items = << <<>> >> => (~frame.result.threw /\ ~frame.result.isValid)))
  /\ [][(lastOp' = "handlePayment" /\ cartItems = <<>>) => calls' = calls]_vars

\* C19: every sale record handed to createSale.mutate carries a
\* client-generated correlation id (and a submission repeated after a failure
\* carries the same one).
C19_SaleCarriesCorrelationId ==
  \A k \in 1..Len(calls) : "correlationId" \in DOMAIN calls[k].saleData

\* the lines of `before` for products other than id are all in `after`, unchanged
OtherLinesKept(before, after, id) ==
  \A i \in 1..Len(before) :
    before[i].id # id => \E j \in 1..Len(after) : after[j] = before[i]

\* C20: cart operations take effect in the order issued and none is lost: an
\* add issued by a barcode scan, whose lookup completes while other cart
\* operations are issued, leaves what those operations did to the lines of
\* the other products in place (whether the scan counts as issued when it
\* started or when its lookup completed), and a synchronous add is applied to
\* the cart as it stands.
C20_OperationsApplyInOrder ==
  [][ /\ lastOp' = "addToCart.scanned" =>
           \E k \in 1..Len(scans) :
             /\ scans' = Remove(scans, k)
             /\ OtherLinesKept(cartItems, cartItems', scans[k].product.id)
      /\ lastOp' = "addToCart" =>
           \E id \in ProductIds : OtherLinesKept(cartItems, cartItems', id) ]_vars

\* the lines of items for products other than id, in order
OtherLines(items, id) == SelectSeq(items, LAMBDA item : item.id # id)

\* the step is updateQuantity(id, quantity) of one of the two pages
UpdateQuantityStep(id, quantity) ==
  D_UpdateQuantity(id, quantity) \/ M_UpdateQuantity(id, quantity)

\* C21: every cart line has quantity > 0 in every reachable state: an add
\* creates a line with quantity 1 or increments one, and updateQuantity(id, q)
\* with q <= 0 removes the line with that id instead of storing q and leaves
\* every other line unchanged.
C21_QuantityPositive ==
  /\ [](\A i \in 1..Len(cartItems) : cartItems[i].quantity > 0)
  /\ [][ \A id \in ProductIds, quantity \in -1..0 :
            UpdateQuantityStep(id, quantity) =>
              /\ ~InCart(cartItems', id)
              /\ cartItems' = OtherLines(cartItems, id) ]_vars

\* updateQuantity has just run and the cart holds the line of b alone, as
\* after updateQuantity("a", -1) on a cart with the lines of a and b
C21_Witness ==
  /\ lastOp = "updateQuantity"
  /\ Len(cartItems) = 1
  /\ cartItems[1].id = "b"

\* the step is removeFromCart(id) of the desktop page or removeItem(id) of
\* the mobile page
RemoveStep(id) == D_RemoveFromCart(id) \/ M_RemoveItem(id)

\* C22: removal is idempotent: removing an id that is not in the cart leaves
\* the cart unchanged, so a second removal of the same id changes nothing,
\* and the lines with other ids are never affected.
C22_RemovalIdempotent ==
  [][ \A id \in ProductIds :
        RemoveStep(id) =>
          /\ ~InCart(cartItems, id) => cartItems' = cartItems
          /\ ~InCart(cartItems', id)
          /\ FilterOut(cartItems', id) = cartItems'
          /\ OtherLines(cartItems', id) = OtherLines(cartItems, id) ]_vars

\* a removal has just run and the cart holds the line of a alone, as after
\* removing b from a cart with the lines of a and b
C22_Witness ==
  /\ lastOp = "removeFromCart"
  /\ Len(cartItems) = 1
  /\ cartItems[1].id = "a"

\* C25: on the desktop page a completed sale clears the cart exactly once:
\* onPaymentComplete runs at most one time for each successful createSale,
\* whether the 3 second timer or the "Print Receipt & Continue" button
\* triggers it.  Every successful sale schedules one run (timers counts the
\* scheduled runs that have not happened), so each run of onPaymentComplete
\* uses up the scheduled run of its sale; a run that leaves it pending is
\* followed by a second run for the same sale, which empties the cart of the
\* next sale.
C25_ClearsOncePerSale ==
  [][ lastOp' = "onPaymentComplete" => timers' = timers - 1 ]_vars

\* the line is an item of the sale accepted last, with the same quantity
LineWasSold(line) ==
  IF sold = <<>> THEN FALSE
  ELSE \E j \in 1..Len(sold[1]) :
         sold[1][j].productId = line.id /\ sold[1][j].quantity = line.quantity

\* C26: on the desktop page every line that checkout completion removes from
\* the cart was part of the submitted sale with the same quantity: nothing
\* added or changed between the moment handlePayment builds saleData and the
\* moment clearCart runs is discarded unsold.
C26_ClearedLinesWereSold ==
  [][ lastOp' = "onPaymentComplete" =>
        \A i \in 1..Len(cartItems) : LineWasSold(cartItems[i]) ]_vars

(***************************************************************************)
(* Properties of the inventory page (checked under SpecInventory)          *)
(***************************************************************************)
HasVisibleCharacter(text) == \E i \in 1..Len(text) : text[i] # " "

HandleStockAdjustmentOps ==
  { "handleStockAdjustment.missingReason", "handleStockAdjustment.noItem",
    "handleStockAdjustment.noChange", "handleStockAdjustment.adjust" }

AdjustCalls == { k \in 1..Len(requests) : requests[k].api = "adjust" }

ValidatedAdjustment == frame.fn = "validateInventoryAdjustment"

\* C12: a stock adjustment is never submitted without a reason.  Every call
\* of apiClient.inventory.adjust in flight carries a reason with a character
\* that is not whitespace; a Confirm with an empty or whitespace-only reason
\* starts no call and sets the missing-reason error; and
\* validateInventoryAdjustment answers isValid false for such a reason.
C12_NoAdjustmentWithoutReason ==
  /\ [](\A k \in AdjustCalls : HasVisibleCharacter(requests[k].payload[1].reason))
  /\ [](ValidatedAdjustment =>
          IF frame.reason = <<>> THEN ~frame.result.isValid
          ELSE ~HasVisibleCharacter(frame.reason[1]) => ~frame.result.isValid)
  /\ [][(lastOp' \in HandleStockAdjustmentOps /\ ~HasVisibleCharacter(adjustmentReason)) =>
          /\ lastOp' = "handleStockAdjustment.missingReason"
          /\ requests' = requests
          /\ error' = << "Please provide a reason for the adjustment" >>]_vars

C12_Witness ==
  /\ lastOp = "handleStockAdjustment.missingReason"
  /\ adjustmentReason = << " " >>
  /\ pendingAdjustment # <<>>
  /\ requests = <<>>
  /\ error = << "Please provide a reason for the adjustment" >>

\* the Confirm about to run asks for the quantity the item is recorded with
ZeroDelta ==
  IF pendingAdjustment = <<>> THEN FALSE
  ELSE LET currentItem == FindItem(inventoryItems, pendingAdjustment[1].productId)
       IN  IF currentItem = <<>> THEN FALSE
           ELSE pendingAdjustment[1].newQuantity = OrZero(currentItem[1].currentStock)

\* C13 as stated: a Confirm whose target quantity equals the recorded
\* currentStock starts no apiClient.inventory.adjust call and sets no error.
C13_ZeroDeltaNoCallNoError ==
  [][(lastOp' \in HandleStockAdjustmentOps /\ ZeroDelta) =>
        (requests' = requests /\ error' = error)]_vars

\* C13, amended: a Confirm whose target quantity equals the recorded
\* currentStock starts no apiClient.inventory.adjust call; it sets no error
\* when the reason has a character that is not whitespace, and sets the
\* missing-reason error otherwise.
C13_ZeroDeltaNoCall ==
  [][(lastOp' \in HandleStockAdjustmentOps /\ ZeroDelta) =>
        /\ requests' = requests
        /\ IF HasVisibleCharacter(adjustmentReason)
           THEN error' = error /\ lastOp' = "handleStockAdjustment.noChange"
           ELSE error' = << "Please provide a reason for the adjustment" >>]_vars

C13_Witness ==
  /\ lastOp = "handleStockAdjustment.noChange"
  /\ ZeroDelta
  /\ pendingAdjustment[1].newQuantity > 0
  /\ HasVisibleCharacter(adjustmentReason)
  /\ requests = <<>>
  /\ error = <<>>

\* the recorded stock of the item the pending adjustment is about
RecordedStock ==
  LET stock == FindItem(inventoryItems, pendingAdjustment[1].productId)[1].currentStock
  IN  IF stock = <<>> THEN 0 ELSE stock[1]

TypeMatchesSign(adjustment) ==
  /\ adjustment.type = "increase" <=> adjustment.adjustedQuantity > 0
  /\ adjustment.type = "decrease" <=> adjustment.adjustedQuantity < 0

\* C14: every submitted stock adjustment has adjustedQuantity equal to the
\* target quantity minus the item's recorded currentStock (a missing
\* currentStock counting as 0); its type is 'increase' exactly when that
\* delta is > 0 and 'decrease' exactly when it is < 0.
C14_DeltaAndType ==
  /\ [](\A k \in AdjustCalls : TypeMatchesSign(requests[k].payload[1]))
  /\ [][lastOp' = "handleStockAdjustment.adjust" =>
          LET adjustment == requests'[Len(requests')].payload[1]
          IN  /\ adjustment.productId = pendingAdjustment[1].productId
              /\ adjustment.adjustedQuantity = pendingAdjustment[1].newQuantity - RecordedStock
              /\ TypeMatchesSign(adjustment)]_vars

\* stock 2 lowered to 0: the adjustment in flight is -2, a decrease
C14_Witness ==
  /\ lastOp = "handleStockAdjustment.adjust"
  /\ inventoryItems # <<>>
  /\ inventoryItems[1].currentStock = <<2>>
  /\ pendingAdjustment = << [ productId |-> "p", newQuantity |-> 0 ] >>
  /\ \E k \in AdjustCalls :
        /\ requests[k].payload[1].adjustedQuantity = -2
        /\ requests[k].payload[1].type = "decrease"

\* C15: no submitted adjustment drives the stock below zero: whatever the
\* quantity edits (minus, plus, typed) before Apply and Confirm, the
\* adjustment handed to apiClient.inventory.adjust satisfies
\* currentStock + adjustedQuantity >= 0.
C15_StockStaysNonNegative ==
  [][lastOp' = "handleStockAdjustment.adjust" =>
        RecordedStock + requests'[Len(requests')].payload[1].adjustedQuantity >= 0]_vars

RejectedAdjustmentOps == { "handleStockAdjustment.missingReason", "adjust.rejected" }

\* C16: a rejected stock adjustment is recoverable: right after
\* handleStockAdjustment failed for a missing reason or because the API call
\* failed, the pending adjustment is still held and the page still renders
\* its controls, from which the reason dialog is confirmed again.
C16_RejectedAdjustmentRecoverable ==
  lastOp \in RejectedAdjustmentOps => (pendingAdjustment # <<>> /\ MainShown)


\* C27: after a stock adjustment succeeds, the stock the backend records for
\* the product equals the target quantity the manager entered, also when
\* another session changed the stock between the last fetch and the adjust
\* call: when the call resolves with no handler of the page having run since
\* handleStockAdjustment sent it, the recorded stock is the pending target.
C27_RecordedStockIsTarget ==
  [][ (lastOp = "handleStockAdjustment.adjust" /\ lastOp' = "adjust.resolved") =>
        serverStock' = << pendingAdjustment[1].newQuantity >> ]_vars

(***************************************************************************)
(* Properties of the AuthProvider (checked under SpecAuth)                 *)
(***************************************************************************)
\* the arguments withAuth is called with: the cashier page, the admin page,
\* a page behind a permission, a page behind both, a page behind neither
Wrappers ==
  { [ requiredRole |-> <<"cashier">>, requiredPermission |-> <<>> ],
    [ requiredRole |-> <<"admin">>,   requiredPermission |-> <<>> ],
    [ requiredRole |-> <<>>,          requiredPermission |-> <<"shifts.manage">> ],
    [ requiredRole |-> <<"manager">>, requiredPermission |-> <<"system.manage">> ],
    [ requiredRole |-> <<>>,          requiredPermission |-> <<>> ] }

Rendered(wrapper) ==
  AuthenticatedComponent(wrapper.requiredRole, wrapper.requiredPermission) = "component"

\* no token in the provider and none in localStorage: the state
\* clearAuthState leaves
SessionCleared == auth.token = <<>> /\ localStorage.auth_token = <<>>

\* the continuations that end with clearAuthState whatever the error
ClearingOps ==
  { "logout.settled", "revokeAllSessions.resolved", "revokeAllSessions.rejected",
    "login.rejected" }

\* C28: a component wrapped by withAuth is rendered only in states where user
\* and token are non-null, isValidated is true, isLoading is false, the user's
\* role reaches the required role and the user's role has the required
\* permission; after clearAuthState (logout, 401/403 handling,
\* revokeAllSessions) the session stays cleared, and no wrapped component is
\* rendered, until a login succeeds.
C28_RenderedOnlyWhenAuthorized ==
  /\ [](\A wrapper \in Wrappers :
          Rendered(wrapper) =>
            /\ auth.user # <<>> /\ auth.token # <<>>
            /\ auth.isValidated /\ ~auth.isLoading
            /\ wrapper.requiredRole # <<>> =>
                 roleHierarchy[auth.user[1]] >= roleHierarchy[wrapper.requiredRole[1]]
            /\ wrapper.requiredPermission # <<>> =>
                 wrapper.requiredPermission[1] \in rolePermissions[auth.user[1]])
  /\ [](SessionCleared => \A wrapper \in Wrappers : ~Rendered(wrapper))
  /\ [][ /\ lastOp' \in ClearingOps => SessionCleared'
         /\ (lastOp' \in { "validateStoredAuth.rejected", "refreshToken.rejected" }
               /\ auth.token # <<>> /\ auth'.token = <<>>) => SessionCleared'
         /\ (SessionCleared /\ ~SessionCleared') => lastOp' = "login.resolved" ]_vars

\* after a login a manager sees the pages for managers and is denied the
\* admin page
C28_Witness ==
  /\ lastOp = "login.resolved"
  /\ AuthenticatedComponent(<<"manager">>, <<>>) = "component"
  /\ AuthenticatedComponent(<<"admin">>, <<>>) = "denied.role"
  /\ AuthenticatedComponent(<<>>, <<"shifts.manage">>) = "component"

\* the messages handleAuthError can choose
AuthErrorMessages == { AuthErrorOutcome(err).message : err \in ErrorInputs }

\* C29: a failed authentication operation leaves its error visible: after
\* handleAuthError has processed the error of a rejected login or token
\* refresh, the auth state has error set to the message chosen for that
\* error, together with user = null and token = null when the auth state
\* was cleared.
C29_AuthErrorVisible ==
  [][ lastOp' \in { "login.rejected", "refreshToken.rejected" } =>
        /\ auth'.error # <<>>
        /\ auth'.error[1] \in AuthErrorMessages
        /\ lastOp' = "login.rejected" => (auth'.user = <<>> /\ auth'.token = <<>>) ]_vars

\* C30: permissions follow the role hierarchy of hasRole: for the role r1 of
\* the user and every role r2 with hasRole(r2), every permission that a user
\* with role r2 has is a permission hasPermission grants the user.
C30_PermissionsFollowHierarchy ==
  auth.user # <<>> =>
    \A role \in Roles :
      hasRole(role) =>
        \A permission \in Permissions :
          permission \in rolePermissions[role] => hasPermission(permission)
====
